---- MODULE Spec2Model ----
(***************************************************************************)
(* Model of the serving path of the Experience Recommendation System:      *)
(* RecommendationService (model load, cache check, cold start, scoring),   *)
(* InteractionService and the unauthenticated test routes (interaction     *)
(* writes and cache invalidation), the scheduled retrain_job and the       *)
(* TrainingService pipeline (artifact writes).                             *)
(*                                                                         *)
(* The Redis client is the one built in database/redis_cache.py from       *)
(* redis.asyncio: every command method returns a coroutine.  A command     *)
(* takes effect on the server only where the code awaits it                *)
(* (interaction_service.py); where the code calls it without await         *)
(* (recommendation_service.py) the call only builds a coroutine object.    *)
(***************************************************************************)
EXTENDS Integers, FiniteSets, Sequences, TLC

\* ---------------------------------------------------------------- bounds
NUsers == 2
MaxTopK == 2
MaxDocs == 1
MaxRuns == 2
MaxRaw == 2
MaxItems == 2
MaxMin == 2

Users == 1..NUsers
TopKs == 1..MaxTopK
Keys == Users \X TopKs
Items == 1..MaxItems

\* ------------------------------------------------------------ variables
VARIABLES
    redisClient,   \* redis_cache.client: "none" or "conn"
    cache,         \* Redis keyspace recommendations:<user>:<top_k>
    staleKeys,     \* history: keys whose entry predates a later interaction write of its user
    pretrainKeys,  \* history: keys whose entry predates a later completed retraining
    docs,          \* interactions collection: number of documents per user
    modelFile,     \* models/als_model.pkl
    encFile,       \* models/encoders_als.pkl
    svc,           \* the RecommendationService singleton
    rd,            \* the in-flight recommendation request (coroutine)
    wr,            \* the in-flight interaction request (coroutine)
    job,           \* the scheduler thread running retrain_job and its subprocess
    tsvc,          \* the TrainingService singleton; preprocess is the status last returned by run_preprocessing
    api,           \* the API-triggered training task and its subprocess
    csvFile,       \* data/processed_interactions.csv
    nruns,         \* training runs started so far
    prep,          \* one run of the preprocessing code on a list of raw records
    cf             \* one trained recommender model and the query made of it

vars == <<redisClient, cache, staleKeys, pretrainKeys, docs, modelFile, encFile,
          svc, rd, wr, job, tsvc, api, csvFile, nruns, prep, cf>>

\* --------------------------------------------------------------- values
\* A recommendation response: which branch produced it and from which model run.
Popularity == "Popularity-based"
ALS == "ALS Collaborative Filtering"
NoResult == [model |-> "none", run |-> -1]
PopResult == [model |-> Popularity, run |-> -1]
AlsResult(r) == [model |-> ALS, run |-> r]

\* A Redis value: absent, or the JSON text of a response.
NoEntry == [present |-> FALSE, res |-> NoResult]
Entry(res) == [present |-> TRUE, res |-> res]
\* An entry left in the keyspace by an earlier process lifetime.
PreEntry == Entry(PopResult)

\* What a command method of the asyncio client returns when it is not awaited.
Coroutine == [present |-> TRUE, res |-> [model |-> "coroutine", run |-> -1]]

\* Artifact files and their in-memory copies.
AbsentFile == [st |-> "absent", run |-> -1, users |-> {}]
PartialFile(r) == [st |-> "partial", run |-> r, users |-> {}]
CompleteFile(r, S) == [st |-> "complete", run |-> r, users |-> S]
None == [set |-> FALSE, run |-> -1, users |-> {}]
Loaded(f) == [set |-> TRUE, run |-> f.run, users |-> f.users]

\* Users that have at least one interaction document.
ActiveUsers(d) == {u \in Users : d[u] > 0}

IdleRd == [pc |-> "idle", op |-> "none", user |-> 1, k |-> 1, use_cache |-> FALSE,
           hit |-> FALSE, cache_failed |-> FALSE, cold |-> FALSE, res |-> NoResult,
           err |-> "none", after_retrain |-> FALSE, race |-> "none"]
IdleWr == [pc |-> "idle", op |-> "none", user |-> 1, written |-> FALSE,
           keys |-> {}, cleared |-> FALSE, raised |-> FALSE, err |-> "none"]
IdleJob == [pc |-> "idle", run |-> -1, users |-> {}]

IdleApi == [pc |-> "idle", kind |-> "none", run |-> -1, users |-> {}]

\* ------------------------------------------------- the asyncio Redis client
\* KEYS recommendations:<u>:* on the server.
KeysMatching(keyspace, u) == {key \in Keys : key[1] = u /\ keyspace[key].present}

\* Variant: the DEL is built but never sent.
DeleteKeys_unsent(keyspace, ks) == keyspace

\* DEL key... on the server.
DeleteKeys(keyspace, ks) == [key \in Keys |-> IF key \in ks THEN NoEntry ELSE keyspace[key]]

\* SETEX key ttl value on the server.
SetKey(keyspace, key, res) == [keyspace EXCEPT ![key] = Entry(res)]

\* self.redis_client.get(cache_key), called without await: the GET is never
\* sent, the caller receives the coroutine object.
ClientGet(keyspace, key) == Coroutine

\* Variant: the SETEX is awaited and reaches the server.
ClientSetex_awaited(keyspace, key, res) == SetKey(keyspace, key, res)

\* self.redis_client.setex(cache_key, ttl, json.dumps(data)), called without
\* await: the SETEX is never sent, the keyspace is unchanged.
ClientSetex(keyspace, key, res) == keyspace

\* json.loads accepts str, bytes or bytearray and raises TypeError otherwise.
JsonLoadsRaises(x) == x = Coroutine

\* Variant: no try/except around the read, the TypeError reaches the caller.
GetCachedRecommendations_uncaught(client, keyspace, key) ==
    IF client = "none"
    THEN [hit |-> FALSE, res |-> NoResult, failed |-> FALSE, err |-> "none"]
    ELSE LET cached == ClientGet(keyspace, key) IN
         IF cached.present
         THEN IF JsonLoadsRaises(cached)
              THEN [hit |-> FALSE, res |-> NoResult, failed |-> TRUE, err |-> "cache"]
              ELSE [hit |-> TRUE, res |-> cached.res, failed |-> FALSE, err |-> "none"]
         ELSE [hit |-> FALSE, res |-> NoResult, failed |-> FALSE, err |-> "none"]

\* RecommendationService._get_cached_recommendations: the cached response, or
\* a miss; an exception inside the try block is logged and becomes a miss.
GetCachedRecommendations(client, keyspace, key) ==
    IF client = "none"
    THEN [hit |-> FALSE, res |-> NoResult, failed |-> FALSE, err |-> "none"]
    ELSE LET cached == ClientGet(keyspace, key) IN
         IF cached.present
         THEN IF JsonLoadsRaises(cached)
              THEN [hit |-> FALSE, res |-> NoResult, failed |-> TRUE, err |-> "none"]
              ELSE [hit |-> TRUE, res |-> cached.res, failed |-> FALSE, err |-> "none"]
         ELSE [hit |-> FALSE, res |-> NoResult, failed |-> FALSE, err |-> "none"]

\* RecommendationService._cache_recommendations: the keyspace after the call.
CacheRecommendations(client, keyspace, key, res) ==
    IF client = "none" THEN keyspace ELSE ClientSetex(keyspace, key, res)

\* ------------------------------------------------------------- scoring
\* Variant: the position is counted from the largest class.
Transform_descending(classes, u) == Cardinality({v \in classes : v > u})

\* LabelEncoder.transform: the index of u in the sorted classes_.
Transform(classes, u) == Cardinality({v \in classes : v < u})

\* Variant: no cold-start test, transform raises ValueError on an unseen id.
ScoreRecommendations_noColdStart(encoders, model_data, u) ==
    IF ~encoders.set
    THEN [err |-> "cleared", cold |-> FALSE, res |-> NoResult]
    ELSE IF u \notin encoders.users
    THEN [err |-> "unseen", cold |-> TRUE, res |-> NoResult]
    ELSE IF ~model_data.set
    THEN [err |-> "cleared", cold |-> FALSE, res |-> NoResult]
    ELSE IF Transform(encoders.users, u) >= Cardinality(model_data.users)
    THEN [err |-> "index", cold |-> FALSE, res |-> NoResult]
    ELSE [err |-> "none", cold |-> FALSE, res |-> AlsResult(model_data.run)]

\* get_recommendations lines 98-122: the branch taken and the error raised:
\* "cleared" is the TypeError of subscripting None, "index" the IndexError of
\* a user index beyond the rows of user_factors.
ScoreRecommendations(encoders, model_data, u) ==
    IF ~encoders.set
    THEN [err |-> "cleared", cold |-> FALSE, res |-> NoResult]
    ELSE IF u \notin encoders.users
    THEN [err |-> "none", cold |-> TRUE, res |-> PopResult]
    ELSE IF ~model_data.set
    THEN [err |-> "cleared", cold |-> FALSE, res |-> NoResult]
    ELSE IF Transform(encoders.users, u) >= Cardinality(model_data.users)
    THEN [err |-> "index", cold |-> FALSE, res |-> NoResult]
    ELSE [err |-> "none", cold |-> FALSE, res |-> AlsResult(model_data.run)]

\* get_similar_experiences lines 145-175; known says whether experience_id is
\* in item_encoder.classes_.
ScoreSimilar(encoders, model_data, known) ==
    IF ~encoders.set
    THEN [err |-> "cleared", cold |-> FALSE, res |-> NoResult]
    ELSE IF ~known
    THEN [err |-> "none", cold |-> TRUE, res |-> PopResult]
    ELSE IF ~model_data.set
    THEN [err |-> "cleared", cold |-> FALSE, res |-> NoResult]
    ELSE [err |-> "none", cold |-> FALSE, res |-> AlsResult(model_data.run)]

\* -------------------------------------------------------- preprocessing
\* Ratings are written in tenths: 50 is 5.0, 35 is 3.5.
\* An optional value: <<>> is None, <<v>> is v.
NoValue == <<>>
Some(v) == <<v>>

\* scripts/preprocess_interactions.py, the thresholds and the iteration cap
\* of filter_sparse_data.
MIN_USER_INTERACTIONS == 1
MIN_EXPERIENCE_INTERACTIONS == 1
MAX_FILTER_ITERATIONS == 50

\* An interaction document: user_id 0 stands for the empty string,
\* created_at is a tick of the clock.
RawRecord(u, e, t, r, b, c, ts) ==
    [user_id |-> u, experience_id |-> e, interaction_type |-> t, rating |-> r,
     booked |-> b, completed |-> c, created_at |-> ts]

\* A row of the rating table of recommender/preprocessing.py.
Row(u, e, r) == [user_id |-> u, experience_id |-> e, rating |-> r]

\* A row of the rating table of process_interactions.
StampedRow(u, e, r, ts) ==
    [user_id |-> u, experience_id |-> e, rating |-> r, created_at |-> ts]

\* A row read back as a record: interaction.get finds no interaction_type,
\* booked or completed column.
RowAsRecord(row) ==
    RawRecord(row.user_id, row.experience_id, "", Some(row.rating), FALSE, FALSE,
              row.created_at)

RowsAsRecords(df) == [i \in DOMAIN df |-> RowAsRecord(df[i])]

Max(S) == CHOOSE x \in S : \A y \in S : y <= x

\* Variant: the explicit rating is not consulted.
ConvertToImplicitRating_noExplicit(interaction) ==
    IF interaction.completed THEN 50
    ELSE IF interaction.booked THEN 50
    ELSE IF interaction.interaction_type = "wishlist" THEN 30
    ELSE IF interaction.interaction_type = "click" THEN 20
    ELSE IF interaction.interaction_type = "view" THEN 10
    ELSE 10

\* InteractionPreprocessor.convert_to_implicit_rating.
ConvertToImplicitRating(interaction) ==
    IF interaction.completed THEN 50
    ELSE IF interaction.booked THEN 50
    ELSE IF interaction.rating # NoValue /\ interaction.rating[1] > 0
         THEN interaction.rating[1]
    ELSE IF interaction.interaction_type = "wishlist" THEN 30
    ELSE IF interaction.interaction_type = "click" THEN 20
    ELSE IF interaction.interaction_type = "view" THEN 10
    ELSE 10

\* Lexicographic order of (user_id, experience_id) keys, the order in which
\* groupby lists its groups.
PairLeq(p, q) == p[1] < q[1] \/ (p[1] = q[1] /\ p[2] <= q[2])

RECURSIVE SortPairs(_)
SortPairs(S) ==
    IF S = {} THEN <<>>
    ELSE LET m == CHOOSE p \in S : \A q \in S : PairLeq(p, q)
         IN <<m>> \o SortPairs(S \ {m})

PairOf(row) == <<row.user_id, row.experience_id>>

\* process_interactions lines 110-126: the rows built from the records that
\* have a user_id and an experience_id.
ValidRows(interactions) ==
    LET valid == SelectSeq(interactions,
                           LAMBDA x : x.user_id # 0 /\ x.experience_id # 0)
    IN [i \in DOMAIN valid |->
           StampedRow(valid[i].user_id, valid[i].experience_id,
                      ConvertToImplicitRating(valid[i]), valid[i].created_at)]

\* Variant: the rows are returned without the groupby.
ProcessInteractions_noGroupby(interactions) == ValidRows(interactions)

\* Variant: each column takes the value of the group's last row.
Aggregate_last(data, pair) ==
    LET last == Max({i \in DOMAIN data : PairOf(data[i]) = pair})
    IN StampedRow(pair[1], pair[2], data[last].rating, data[last].created_at)

\* process_interactions lines 141-144: agg of one group, rating by max and
\* created_at by max.
Aggregate(data, pair) ==
    LET members == {i \in DOMAIN data : PairOf(data[i]) = pair}
    IN StampedRow(pair[1], pair[2], Max({data[i].rating : i \in members}),
                  Max({data[i].created_at : i \in members}))

\* InteractionPreprocessor.process_interactions: one row per
\* (user_id, experience_id) group.
ProcessInteractions(interactions) ==
    LET data == ValidRows(interactions)
        groups == SortPairs({PairOf(data[i]) : i \in DOMAIN data})
    IN [g \in DOMAIN groups |-> Aggregate(data, groups[g])]

\* value_counts of a column.
UserCount(df, u) == Cardinality({i \in DOMAIN df : df[i].user_id = u})
ExperienceCount(df, e) == Cardinality({i \in DOMAIN df : df[i].experience_id = e})

\* The body of the filter loop for thresholds min_user and min_item: both
\* counts are taken before any row is removed.
FilterPassWith(df, min_user, min_item) ==
    SelectSeq(df, LAMBDA r : /\ UserCount(df, r.user_id) >= min_user
                             /\ ExperienceCount(df, r.experience_id) >= min_item)

\* filter_sparse_data lines 168-176: one pass of the loop body.
FilterPass(df) ==
    FilterPassWith(df, MIN_USER_INTERACTIONS, MIN_EXPERIENCE_INTERACTIONS)

\* Variant: the test asks for a table that grew.
Converged_grew(df, prev_size) == Len(df) > prev_size

\* The convergence test of the filter loops: len(df) == prev_size.
Converged(df, prev_size) == Len(df) = prev_size

\* filter_sparse_data lines 165-189: iteration is the count of passes done,
\* prev_size the length before the pass.
RECURSIVE FilterLoop(_, _, _)
FilterLoop(df, iteration, prev_size) ==
    LET next == FilterPass(df) IN
    IF Len(next) = prev_size THEN next
    ELSE IF iteration + 1 > MAX_FILTER_ITERATIONS THEN next
    ELSE FilterLoop(next, iteration + 1, Len(next))

\* InteractionPreprocessor.filter_sparse_data; the density of line 198
\* divides by zero when no row is left.
FilterSparseData(df) ==
    LET out == FilterLoop(df, 0, Len(df)) IN
    IF out = <<>> THEN [df |-> out, err |-> "ZeroDivisionError"]
    ELSE [df |-> out, err |-> "none"]

\* recommender/preprocessing.py, InteractionPreprocessor.INTERACTION_WEIGHTS,
\* with the fillna of line 68 for a type outside the table.
InteractionWeight(t) ==
    CASE t = "booking" -> 10
      [] t = "wishlist" -> 7
      [] t = "click" -> 3
      [] t = "view" -> 2
      [] OTHER -> 3

\* The elements of s at the positions in I, in their order in s.
RECURSIVE KeepIndices(_, _)
KeepIndices(s, I) ==
    IF s = <<>> THEN <<>>
    ELSE KeepIndices(SubSeq(s, 1, Len(s) - 1), I)
             \o (IF Len(s) \in I THEN <<s[Len(s)]>> ELSE <<>>)

\* drop_duplicates(subset=['user_id', 'item_id'], keep='last').
DropDuplicatesKeepLast(df) ==
    KeepIndices(df, {i \in DOMAIN df :
                        ~\E j \in DOMAIN df : j > i /\ PairOf(df[j]) = PairOf(df[i])})

\* sort_values('created_at'): records of one time keep their order.
RECURSIVE SortByCreatedAt(_)
SortByCreatedAt(s) ==
    IF s = <<>> THEN <<>>
    ELSE LET rest == SortByCreatedAt(SubSeq(s, 1, Len(s) - 1))
             x == s[Len(s)]
             before == SelectSeq(rest, LAMBDA y : y.created_at <= x.created_at)
             after == SelectSeq(rest, LAMBDA y : y.created_at > x.created_at)
         IN before \o <<x>> \o after

\* recommender/preprocessing.py, InteractionPreprocessor.preprocess; the
\* item column of its records is named movie_id.  The weights are at most
\* 1.0, so line 98 scales every rating by 5.
Preprocess(raw_interactions, min_user, min_item) ==
    IF raw_interactions = <<>> THEN [df |-> <<>>, err |-> "ValueError"]
    ELSE LET sorted == SortByCreatedAt(raw_interactions)
             df == [i \in DOMAIN sorted |->
                       Row(sorted[i].user_id, sorted[i].experience_id,
                           InteractionWeight(sorted[i].interaction_type))]
             unique == DropDuplicatesKeepLast(df)
             byUser == SelectSeq(unique, LAMBDA r : UserCount(unique, r.user_id) >= min_user)
             byItem == SelectSeq(byUser,
                           LAMBDA r : ExperienceCount(byUser, r.experience_id) >= min_item)
         IN [df |-> [i \in DOMAIN byItem |->
                        Row(byItem[i].user_id, byItem[i].experience_id, byItem[i].rating * 5)],
             err |-> "none"]

\* train_als_model.py main: ALPHA, also the alpha of its ImplicitALS.
ALPHA == 10

\* retrain_from_mongodb.py main: the alpha of its ImplicitALS.
RetrainAlpha == 40

\* csr_matrix((values, (rows, cols))): the entry of a pair is the sum of the
\* values given for it; values are in tenths.
RECURSIVE SumValues(_, _)
SumValues(rows, pair) ==
    IF rows = <<>> THEN 0
    ELSE (IF PairOf(rows[1]) = pair THEN rows[1].value ELSE 0) + SumValues(Tail(rows), pair)

CsrMatrix(rows) ==
    [pair \in {PairOf(rows[i]) : i \in DOMAIN rows} |-> SumValues(rows, pair)]

\* train_als_model.py main lines 280-283 and 333-337: the confidence column
\* 1 + ALPHA * rating of the training rows becomes the matrix.
TrainAlsMatrix(train_df) ==
    CsrMatrix([i \in DOMAIN train_df |->
                  [user_id |-> train_df[i].user_id,
                   experience_id |-> train_df[i].experience_id,
                   value |-> 10 + ALPHA * train_df[i].rating]])

\* retrain_from_mongodb.py load_data_from_mongodb lines 42-52: rating_map.
RetrainRating(inter) ==
    CASE inter.interaction_type = "view" -> 10
      [] inter.interaction_type = "click" -> 20
      [] inter.interaction_type = "wishlist" -> 30
      [] inter.interaction_type = "booking" -> 50
      [] inter.interaction_type = "completed" -> 50
      [] inter.interaction_type = "rating" ->
            (IF inter.rating = NoValue THEN 30 ELSE inter.rating[1])
      [] OTHER -> 10

\* retrain_from_mongodb.py main lines 96-99: the rating column of every
\* interaction becomes the matrix.
RetrainMatrix(interactions) ==
    CsrMatrix([i \in DOMAIN interactions |->
                  [user_id |-> interactions[i].user_id,
                   experience_id |-> interactions[i].experience_id,
                   value |-> RetrainRating(interactions[i])]])

NoFrame == [df |-> <<>>, err |-> "none"]

\* The locals of a filter loop before its first pass.
LoopStart(which, df, min_user, min_item) ==
    [which |-> which, df |-> df, iteration |-> 0, prev_size |-> Len(df),
     min_user |-> min_user, min_item |-> min_item]

NoLoop == LoopStart("none", <<>>, MIN_USER_INTERACTIONS, MIN_EXPERIENCE_INTERACTIONS)

IdlePrep == [pc |-> "idle", pass |-> 1, raw |-> <<>>, table |-> <<>>, out |-> NoFrame,
             first |-> <<>>, alt |-> NoFrame, loop |-> NoLoop, args |-> <<>>]

\* --------------------------------------------------- recommender models
Min(a, b) == IF a <= b THEN a ELSE b

\* LabelEncoder.inverse_transform: the class at position i of the sorted
\* classes_.
InverseTransform(classes, i) ==
    CHOOSE v \in classes : Cardinality({w \in classes : w < v}) = i

\* np.dot of two vectors of equal length.
RECURSIVE Dot(_, _)
Dot(a, b) ==
    IF a = <<>> THEN 0 ELSE a[1] * b[1] + Dot(Tail(a), Tail(b))

\* CollaborativeFilteringModel.__init__: the defaults of the constructor
\* (learning_rate and regularization in thousandths).
DefaultHyper ==
    [n_factors |-> 50, n_epochs |-> 20, learning_rate |-> 5, regularization |-> 20,
     algorithm |-> "svd"]

\* A CollaborativeFilteringModel instance after train(): Python rows
\* 0..n-1 are the sequence positions 1..n.
TrainedModel(hyper, users, items, user_factors, item_factors, item_bias) ==
    [n_factors |-> hyper.n_factors, n_epochs |-> hyper.n_epochs,
     learning_rate |-> hyper.learning_rate, regularization |-> hyper.regularization,
     algorithm |-> hyper.algorithm,
     user_encoder |-> users, item_encoder |-> items,
     n_users |-> Cardinality(users), n_items |-> Cardinality(items),
     user_factors |-> user_factors, item_factors |-> item_factors,
     user_bias |-> [i \in 1..Cardinality(users) |-> 0], item_bias |-> item_bias,
     global_mean |-> 0, is_trained |-> TRUE]

\* CollaborativeFilteringModel.predict_single.
PredictSingle(model, user_idx, item_idx) ==
    IF user_idx >= model.n_users \/ item_idx >= model.n_items
    THEN model.global_mean
    ELSE model.global_mean + model.user_bias[user_idx + 1] + model.item_bias[item_idx + 1]
         + Dot(model.user_factors[user_idx + 1], model.item_factors[item_idx + 1])

\* CollaborativeFilteringSVD._predict_single: the prediction clipped to [0, 1].
SvdPredictSingle(model, user_idx, item_idx) ==
    IF user_idx >= model.n_users \/ item_idx >= model.n_items
    THEN model.global_mean
    ELSE LET prediction == model.global_mean + model.user_bias[user_idx + 1]
                           + model.item_bias[item_idx + 1]
                           + Dot(model.user_factors[user_idx + 1],
                                 model.item_factors[item_idx + 1])
         IN IF prediction < 0 THEN 0 ELSE IF prediction > 1 THEN 1 ELSE prediction

\* Variant: the sort is ascending.
RECURSIVE SortByScoreDescending_ascending(_)
SortByScoreDescending_ascending(s) ==
    IF s = <<>> THEN <<>>
    ELSE LET rest == SortByScoreDescending_ascending(SubSeq(s, 1, Len(s) - 1))
             x == s[Len(s)]
             before == SelectSeq(rest, LAMBDA y : y[2] <= x[2])
             after == SelectSeq(rest, LAMBDA y : y[2] > x[2])
         IN before \o <<x>> \o after

\* list.sort(key=lambda x: x[1], reverse=True): stable, equal scores keep
\* their order.
RECURSIVE SortByScoreDescending(_)
SortByScoreDescending(s) ==
    IF s = <<>> THEN <<>>
    ELSE LET rest == SortByScoreDescending(SubSeq(s, 1, Len(s) - 1))
             x == s[Len(s)]
             before == SelectSeq(rest, LAMBDA y : y[2] >= x[2])
             after == SelectSeq(rest, LAMBDA y : y[2] < x[2])
         IN before \o <<x>> \o after

\* The slice s[:k].
Take(s, k) ==
    IF k >= 0 THEN SubSeq(s, 1, Min(k, Len(s)))
    ELSE SubSeq(s, 1, IF Len(s) + k > 0 THEN Len(s) + k ELSE 0)

\* The ids of a set in ascending order: classes_ of a LabelEncoder.
RECURSIVE SortedIds(_)
SortedIds(S) ==
    IF S = {} THEN <<>>
    ELSE LET m == CHOOSE x \in S : \A y \in S : x <= y
         IN <<m>> \o SortedIds(S \ {m})

\* CollaborativeFilteringModel.recommend_for_user; exclude_items is NoValue
\* for None, else Some(set of item ids).
RecommendForUser(model, user_id, top_k, exclude_items) ==
    IF ~model.is_trained THEN [err |-> "ValueError", list |-> <<>>]
    ELSE IF user_id \notin model.user_encoder THEN [err |-> "none", list |-> <<>>]
    ELSE LET user_idx == Transform(model.user_encoder, user_id)
             all_items == SortedIds(model.item_encoder)
             kept == SelectSeq(all_items,
                         LAMBDA item_id :
                             ~(exclude_items # NoValue /\ exclude_items[1] # {}
                               /\ item_id \in exclude_items[1]))
             predictions == [i \in DOMAIN kept |->
                                <<kept[i],
                                  PredictSingle(model, user_idx,
                                                Transform(model.item_encoder, kept[i]))>>]
         IN [err |-> "none", list |-> Take(SortByScoreDescending(predictions), top_k)]

\* CollaborativeFilteringSVD.recommend_for_user: user and items are indices;
\* exclude_items is NoValue for None, else Some(set of item indices).
SvdRecommendForUser(model, user_idx, top_k, exclude_items) ==
    IF user_idx >= model.n_users THEN <<>>
    ELSE LET exclude == IF exclude_items = NoValue THEN {} ELSE exclude_items[1]
             kept == SelectSeq([i \in 1..model.n_items |-> i - 1],
                               LAMBDA item_idx : item_idx \notin exclude)
             scores == [i \in DOMAIN kept |->
                           <<kept[i], SvdPredictSingle(model, user_idx, kept[i])>>]
         IN Take(SortByScoreDescending(scores), top_k)

\* CollaborativeFilteringSVD after fit(user_indices, item_indices, ratings):
\* n_users and n_items are the largest index plus one; fitted_users records
\* the user indices that were in user_indices.
SvdFitted(user_indices, item_indices, user_factors, item_factors, item_bias) ==
    [n_users |-> Max(user_indices) + 1, n_items |-> Max(item_indices) + 1,
     user_factors |-> user_factors, item_factors |-> item_factors,
     user_bias |-> [i \in 1..(Max(user_indices) + 1) |-> 0], item_bias |-> item_bias,
     global_mean |-> 0, fitted_users |-> user_indices]

\* CollaborativeFilteringModel.save: the two pickled dictionaries.
Save(model) ==
    [model_data |->
         [user_factors |-> model.user_factors, item_factors |-> model.item_factors,
          user_bias |-> model.user_bias, item_bias |-> model.item_bias,
          global_mean |-> model.global_mean, n_users |-> model.n_users,
          n_items |-> model.n_items, n_factors |-> model.n_factors,
          algorithm |-> model.algorithm, is_trained |-> model.is_trained],
     encoder_data |->
         [user_encoder |-> model.user_encoder, item_encoder |-> model.item_encoder]]

\* CollaborativeFilteringModel.load: cls(n_factors, algorithm) takes the
\* other constructor defaults, then the saved parameters are restored.
Load(model_data, encoder_data) ==
    [n_factors |-> model_data.n_factors, n_epochs |-> DefaultHyper.n_epochs,
     learning_rate |-> DefaultHyper.learning_rate,
     regularization |-> DefaultHyper.regularization,
     algorithm |-> model_data.algorithm,
     user_encoder |-> encoder_data.user_encoder, item_encoder |-> encoder_data.item_encoder,
     n_users |-> model_data.n_users, n_items |-> model_data.n_items,
     user_factors |-> model_data.user_factors, item_factors |-> model_data.item_factors,
     user_bias |-> model_data.user_bias, item_bias |-> model_data.item_bias,
     global_mean |-> model_data.global_mean, is_trained |-> model_data.is_trained]

\* get_similar_experiences lines 159-164: the similarity of row idx to
\* item_vec is dot / (sqrt(sq) + 1e-10), kept as the exact pair; a zero
\* norm gives 0.
Similarity(item_factors, item_vec, idx) ==
    LET row == item_factors[idx + 1]
        sq == Dot(row, row) * Dot(item_vec, item_vec)
    IN IF sq = 0 THEN [dot |-> 0, sq |-> 1] ELSE [dot |-> Dot(row, item_vec), sq |-> sq]

\* a <= b for two similarities; 1e-10 is far below the gap between two
\* different cosines of small integer vectors, equal cosines compare equal.
SimLeq(a, b) ==
    IF a.dot <= 0 /\ b.dot >= 0 THEN TRUE
    ELSE IF a.dot > 0 /\ b.dot <= 0 THEN FALSE
    ELSE IF a.dot > 0 THEN a.dot * a.dot * b.sq <= b.dot * b.dot * a.sq
    ELSE a.dot * a.dot * b.sq >= b.dot * b.dot * a.sq

Reverse(s) == [i \in DOMAIN s |-> s[Len(s) + 1 - i]]

\* The last k elements s[-k:], k >= 1.
Last(s, k) == SubSeq(s, IF Len(s) > k THEN Len(s) - k + 1 ELSE 1, Len(s))

\* np.argsort(similarities): the index orders that are ascending in
\* similarity; the default sort is not stable, so equal values may come in
\* any order.
ArgsortOrders(item_factors, item_vec) ==
    LET n == Len(item_factors) IN
    {p \in [1..n -> 0..(n - 1)] :
        /\ \A i, j \in 1..n : p[i] = p[j] => i = j
        /\ \A i, j \in 1..n : i < j =>
              SimLeq(Similarity(item_factors, item_vec, p[i]),
                     Similarity(item_factors, item_vec, p[j]))}

\* Variant: the query item is not filtered out.
SimilarItems_keepSelf(item_factors, item_encoder, experience_id, top_k, order) ==
    LET top_indices == Take(Reverse(Last(order, top_k + 1)), top_k)
    IN [i \in DOMAIN top_indices |-> InverseTransform(item_encoder, top_indices[i])]

\* get_similar_experiences lines 166-170, for an experience_id in
\* item_encoder.classes_ and order the result of argsort: top_item_ids.
SimilarItems(item_factors, item_encoder, experience_id, top_k, order) ==
    LET candidates == Reverse(Last(order, top_k + 1))
        top_indices == Take(SelectSeq(candidates,
                                LAMBDA idx :
                                    InverseTransform(item_encoder, idx) # experience_id),
                            top_k)
    IN [i \in DOMAIN top_indices |-> InverseTransform(item_encoder, top_indices[i])]

\* The parameters one SGD step reads and writes: the biases and factor rows
\* of its user and its item, global_mean and the two hyperparameters.
StepParams(global_mean, user_bias, item_bias, user_factors, item_factors, learning_rate, regularization) ==
    [global_mean |-> global_mean, user_bias |-> user_bias, item_bias |-> item_bias,
     user_factors |-> user_factors, item_factors |-> item_factors,
     learning_rate |-> learning_rate, regularization |-> regularization]

\* row += learning_rate * (error * other - regularization * row) on a factor
\* row.
FactorUpdate(row, other, error, learning_rate, regularization) ==
    [k \in DOMAIN row |->
        row[k] + learning_rate * (error * other[k] - regularization * row[k])]

BiasUpdate(bias, error, learning_rate, regularization) ==
    bias + learning_rate * (error - regularization * bias)

\* The assignments of a _sgd_step after the error is known, in their order.
ApplyError(m, error, user_factors_old) ==
    [m EXCEPT
        !.user_bias = BiasUpdate(m.user_bias, error, m.learning_rate, m.regularization),
        !.item_bias = BiasUpdate(m.item_bias, error, m.learning_rate, m.regularization),
        !.user_factors = FactorUpdate(m.user_factors, m.item_factors, error,
                                      m.learning_rate, m.regularization),
        !.item_factors = FactorUpdate(m.item_factors, user_factors_old, error,
                                      m.learning_rate, m.regularization)]

\* Variant: user_factors_old is taken without copy() and is the updated row.
SgdStep_noCopy(m, rating) ==
    LET pred == m.global_mean + m.user_bias + m.item_bias
                + Dot(m.user_factors, m.item_factors)
        error == rating - pred
        updated == FactorUpdate(m.user_factors, m.item_factors, error,
                                m.learning_rate, m.regularization)
    IN ApplyError(m, error, updated)

\* CollaborativeFilteringModel._sgd_step.
SgdStep(m, rating) ==
    LET pred == m.global_mean + m.user_bias + m.item_bias
                + Dot(m.user_factors, m.item_factors)
        error == rating - pred
        user_factors_old == m.user_factors
    IN ApplyError(m, error, user_factors_old)

\* CollaborativeFilteringSVD._sgd_step: the prediction is the clipped one of
\* _predict_single.
SvdSgdStep(m, rating) ==
    LET prediction == m.global_mean + m.user_bias + m.item_bias
                      + Dot(m.user_factors, m.item_factors)
        pred == IF prediction < 0 THEN 0 ELSE IF prediction > 1 THEN 1 ELSE prediction
        error == rating - pred
        user_factors_old == m.user_factors
    IN ApplyError(m, error, user_factors_old)

\* A score of ImplicitALS.recommend: a number or -np.inf.
Finite(v) == [neg_inf |-> FALSE, v |-> v]
MinusInf == [neg_inf |-> TRUE, v |-> 0]
ScoreLeq(a, b) == a.neg_inf \/ (~b.neg_inf /\ a.v <= b.v)

\* recommend lines 132-136: the score of every item index, -inf for the
\* indices of user_items_row when filtering.
AlsScores(user_row, item_factors, liked_items, filter_already_liked_items) ==
    [i \in 0..(Len(item_factors) - 1) |->
        IF filter_already_liked_items /\ i \in liked_items THEN MinusInf
        ELSE Finite(Dot(user_row, item_factors[i + 1]))]

\* ImplicitALS.recommend: the (top_items, scores[top_items]) pairs it can
\* return.  argpartition keeps N indices that no other index outscores and
\* argsort orders them by descending score; equal scores may come in any
\* order.
AlsRecommend(user_row, item_factors, liked_items, N, filter_already_liked_items) ==
    LET scores == AlsScores(user_row, item_factors, liked_items, filter_already_liked_items)
        n == Min(N, Len(item_factors))
        all == 0..(Len(item_factors) - 1)
    IN IF n = 0 THEN {[items |-> <<>>, scores |-> <<>>]}
       ELSE {[items |-> top, scores |-> [k \in 1..n |-> scores[top[k]]]] :
                top \in {t \in [1..n -> all] :
                            /\ \A j, k \in 1..n : t[j] = t[k] => j = k
                            /\ \A j, k \in 1..n : j < k => ScoreLeq(scores[t[k]], scores[t[j]])
                            /\ \A x \in all \ {t[k] : k \in 1..n} :
                                  \A k \in 1..n : ScoreLeq(scores[x], scores[t[k]])}}

\* train_als_model.py calculate_metrics.  With no test user the loop body
\* never runs and np.mean of the four empty lists is nan.  With a test user
\* the first round calls model.recommend (lines 172-177), reads
\* relevant_items, builds recommended_set and reaches line 185,
\* N = min(N, len(scores)): N is assigned in this function, so it is a local
\* name, and it is read before any assignment.  No user is scored.
CalculateMetrics(test_user_items, K) ==
    IF DOMAIN test_user_items = {}
    THEN [err |-> "none", scored |-> {}, precision |-> "nan", recall |-> "nan",
          ndcg |-> "nan", hit_rate |-> "nan"]
    ELSE [err |-> "UnboundLocalError", scored |-> {}, precision |-> "unset",
          recall |-> "unset", ndcg |-> "unset", hit_rate |-> "unset"]

NoModel == [is_trained |-> FALSE]

IdleCf == [pc |-> "idle", model |-> NoModel, svd |-> NoModel, q |-> <<>>, res |-> <<>>,
           saved |-> <<>>, loaded |-> NoModel]

\* ---------------------------------------------------------------- Init
\* TrainingService.__init__ with no metadata file; preprocess and training
\* record what the last run_preprocessing and run_training returned,
\* returned which of the two returned last.
NewTrainingService ==
    [training_status |-> "idle", last_training |-> "none", preprocess |-> "none",
     training |-> "none", returned |-> "none"]

InitFiles ==
    \/ modelFile = AbsentFile /\ encFile = AbsentFile
    \/ modelFile = CompleteFile(0, {1}) /\ encFile = CompleteFile(0, {1})

Init ==
    /\ redisClient \in {"none", "conn"}
    /\ cache \in {[key \in Keys |-> NoEntry], [key \in Keys |-> PreEntry]}
    /\ staleKeys = {}
    /\ pretrainKeys = {}
    /\ \E n \in 0..NUsers : docs = [u \in Users |-> IF u <= n THEN 1 ELSE 0]
    /\ InitFiles
    /\ svc = [model_data |-> None, encoders |-> None, loaded |-> FALSE, redis_client |-> "none"]
    /\ rd = IdleRd
    /\ wr = IdleWr
    /\ job = IdleJob
    /\ tsvc = NewTrainingService
    /\ api = IdleApi
    /\ csvFile = AbsentFile
    /\ nruns = 0
    /\ prep = IdlePrep
    /\ cf = IdleCf

\* subprocess.run inside the async run_preprocessing / run_training blocks the
\* event loop: no request coroutine advances while an API training run is active.
LoopFree == api.pc = "idle"

\* ------------------------------------------- interaction requests (writer)
\* History bookkeeping for an interaction write of user u: every entry of u
\* now in the keyspace predates that write.
MarkStale(u) == staleKeys' = staleKeys \cup KeysMatching(cache, u)

\* History bookkeeping for a create_interaction write of user u: a request of
\* u that is awaiting the database holds a result computed before the write.
MarkOvertaken(u) ==
    rd' = IF rd.pc = "db" /\ rd.op = "rec" /\ rd.user = u
          THEN [rd EXCEPT !.race = "written"]
          ELSE rd

\* History bookkeeping: the keys of the writer's user are gone while the
\* overtaken request is still awaiting the database.
MarkCleared ==
    rd' = IF rd.pc = "db" /\ rd.race = "written" /\ rd.user = wr.user /\ wr.op = "create"
          THEN [rd EXCEPT !.race = "cleared"]
          ELSE rd

\* POST /api/interactions: InteractionService.create_interaction up to the
\* database write (update of an existing document, or insert of a new one).
CreateInteractionDb ==
    /\ LoopFree
    /\ wr.pc = "idle"
    /\ \E u \in Users, existing \in BOOLEAN :
        /\ existing => docs[u] > 0
        /\ ~existing => docs[u] < MaxDocs
        /\ docs' = [docs EXCEPT ![u] = IF existing THEN @ ELSE @ + 1]
        /\ MarkStale(u)
        /\ MarkOvertaken(u)
        /\ wr' = [IdleWr EXCEPT !.pc = "keys", !.op = "create", !.user = u, !.written = TRUE]
    /\ UNCHANGED <<redisClient, cache, pretrainKeys, modelFile, encFile, svc, job,
                   tsvc, api, csvFile, nruns>>
    /\ UNCHANGED <<prep, cf>>

\* DELETE /api/interactions/{id}: InteractionService.delete_interaction up to
\* delete_one; deleted_count = 0 returns False without touching the cache.
DeleteInteractionDb ==
    /\ LoopFree
    /\ wr.pc = "idle"
    /\ \E u \in Users, found \in BOOLEAN :
        /\ found => docs[u] > 0
        /\ IF found
           THEN /\ docs' = [docs EXCEPT ![u] = @ - 1]
                /\ MarkStale(u)
                /\ wr' = [IdleWr EXCEPT !.pc = "keys", !.op = "delete", !.user = u,
                                        !.written = TRUE]
           ELSE /\ UNCHANGED <<docs, staleKeys>>
                /\ wr' = [IdleWr EXCEPT !.pc = "done", !.op = "delete", !.user = u,
                                        !.err = "404"]
    /\ UNCHANGED <<redisClient, cache, pretrainKeys, modelFile, encFile, svc, rd, job,
                   tsvc, api, csvFile, nruns>>
    /\ UNCHANGED <<prep, cf>>

\* The invalidation block of create_interaction / delete_interaction up to
\* `keys = await redis_client.keys(...)`; ok = FALSE is the call raising.
InvalidateKeys ==
    /\ LoopFree
    /\ wr.pc = "keys"
    /\ IF redisClient = "none"
       THEN wr' = [wr EXCEPT !.pc = "done"] /\ UNCHANGED rd
       ELSE \E ok \in BOOLEAN :
            IF ~ok
            THEN wr' = [wr EXCEPT !.pc = "done", !.raised = TRUE] /\ UNCHANGED rd
            ELSE LET keys == KeysMatching(cache, wr.user) IN
                 IF keys = {}
                 THEN wr' = [wr EXCEPT !.pc = "done", !.cleared = TRUE] /\ MarkCleared
                 ELSE wr' = [wr EXCEPT !.pc = "del", !.keys = keys] /\ UNCHANGED rd
    /\ UNCHANGED <<redisClient, cache, staleKeys, pretrainKeys, docs, modelFile, encFile,
                   svc, job, tsvc, api, csvFile, nruns>>
    /\ UNCHANGED <<prep, cf>>

\* `await redis_client.delete(*keys)`; ok = FALSE is the call raising, which
\* the except clause logs.
InvalidateDelete ==
    /\ LoopFree
    /\ wr.pc = "del"
    /\ \E ok \in BOOLEAN :
        IF ok
        THEN /\ cache' = DeleteKeys(cache, wr.keys)
             /\ staleKeys' = staleKeys \ wr.keys
             /\ pretrainKeys' = pretrainKeys \ wr.keys
             /\ wr' = [wr EXCEPT !.pc = "done", !.cleared = TRUE]
             /\ MarkCleared
        ELSE /\ UNCHANGED <<cache, staleKeys, pretrainKeys, rd>>
             /\ wr' = [wr EXCEPT !.pc = "done", !.raised = TRUE]
    /\ UNCHANGED <<redisClient, docs, modelFile, encFile, svc, job, tsvc, api,
                   csvFile, nruns>>
    /\ UNCHANGED <<prep, cf>>

\* POST /api/test/interaction: insert_one and return; no cache call.
TestCreateInteraction ==
    /\ LoopFree
    /\ wr.pc = "idle"
    /\ \E u \in Users :
        /\ docs[u] < MaxDocs
        /\ docs' = [docs EXCEPT ![u] = @ + 1]
        /\ MarkStale(u)
        /\ wr' = [IdleWr EXCEPT !.pc = "done", !.op = "test_create", !.user = u,
                                !.written = TRUE]
    /\ UNCHANGED <<redisClient, cache, pretrainKeys, modelFile, encFile, svc, rd, job,
                   tsvc, api, csvFile, nruns>>
    /\ UNCHANGED <<prep, cf>>

\* DELETE /api/test/interaction/{user_id}/{experience_id}: delete_one and
\* return; deleted_count = 0 raises the 404 that the except clause turns
\* into a 400; no cache call.
TestDeleteInteraction ==
    /\ LoopFree
    /\ wr.pc = "idle"
    /\ \E u \in Users :
        IF docs[u] > 0
        THEN /\ docs' = [docs EXCEPT ![u] = @ - 1]
             /\ MarkStale(u)
             /\ wr' = [IdleWr EXCEPT !.pc = "done", !.op = "test_delete", !.user = u,
                                     !.written = TRUE]
        ELSE /\ UNCHANGED <<docs, staleKeys>>
             /\ wr' = [IdleWr EXCEPT !.pc = "done", !.op = "test_delete", !.user = u,
                                     !.err = "400"]
    /\ UNCHANGED <<redisClient, cache, pretrainKeys, modelFile, encFile, svc, rd, job,
                   tsvc, api, csvFile, nruns>>
    /\ UNCHANGED <<prep, cf>>

\* The interaction handler returns its response.
InteractionReturn ==
    /\ LoopFree
    /\ wr.pc = "done"
    /\ wr' = IdleWr
    /\ UNCHANGED <<redisClient, cache, staleKeys, pretrainKeys, docs, modelFile, encFile,
                   svc, rd, job, tsvc, api, csvFile, nruns>>
    /\ UNCHANGED <<prep, cf>>

\* --------------------------------------- recommendation requests (reader)
\* The program point that follows load_model in the handler.
AfterLoad(op) == IF op = "rec" THEN "cache" ELSE "score"

\* History: the request starts after retrain_job has cleared the in-memory
\* model and encoders.
StartsAfterRetrain == svc.loaded /\ ~svc.model_data.set /\ ~svc.encoders.set

\* GET /api/recommendations/{user_id}, /api/recommendations/user/{user_id},
\* /api/recommendations/test and /api/test/recommendations/{user_id} enter
\* RecommendationService.get_recommendations.
GetRecommendationsStart ==
    /\ LoopFree
    /\ rd.pc = "idle"
    /\ \E u \in Users, k \in TopKs, uc \in BOOLEAN :
        rd' = [IdleRd EXCEPT !.pc = "load", !.op = "rec", !.user = u, !.k = k,
                             !.use_cache = uc, !.after_retrain = StartsAfterRetrain]
    /\ UNCHANGED <<redisClient, cache, staleKeys, pretrainKeys, docs, modelFile, encFile,
                   svc, wr, job, tsvc, api, csvFile, nruns>>
    /\ UNCHANGED <<prep, cf>>

\* GET /api/recommendations/similar/{experience_id} enters
\* RecommendationService.get_similar_experiences; cold records whether the
\* experience id is unknown to the item encoder.
GetSimilarStart ==
    /\ LoopFree
    /\ rd.pc = "idle"
    /\ \E k \in TopKs, unknown \in BOOLEAN :
        rd' = [IdleRd EXCEPT !.pc = "load", !.op = "sim", !.k = k, !.cold = unknown,
                             !.after_retrain = StartsAfterRetrain]
    /\ UNCHANGED <<redisClient, cache, staleKeys, pretrainKeys, docs, modelFile, encFile,
                   svc, wr, job, tsvc, api, csvFile, nruns>>
    /\ UNCHANGED <<prep, cf>>

\* load_model lines 40-48: return at once when _loaded, else read
\* als_model.pkl.  A missing file raises "Model not trained yet", a file that
\* is being written fails to unpickle; both propagate to the route.
LoadModelFile ==
    /\ LoopFree
    /\ rd.pc = "load"
    /\ IF svc.loaded
       THEN /\ rd' = [rd EXCEPT !.pc = AfterLoad(rd.op)]
            /\ UNCHANGED svc
       ELSE CASE modelFile.st = "complete" ->
                    /\ svc' = [svc EXCEPT !.model_data = Loaded(modelFile)]
                    /\ rd' = [rd EXCEPT !.pc = "loadenc"]
              [] modelFile.st = "absent" ->
                    /\ rd' = [rd EXCEPT !.pc = "done", !.err = "not_trained"]
                    /\ UNCHANGED svc
              [] modelFile.st = "partial" ->
                    /\ rd' = [rd EXCEPT !.pc = "done", !.err = "unpickle"]
                    /\ UNCHANGED svc
    /\ UNCHANGED <<redisClient, cache, staleKeys, pretrainKeys, docs, modelFile, encFile,
                   wr, job, tsvc, api, csvFile, nruns>>
    /\ UNCHANGED <<prep, cf>>

\* load_model lines 50-57: read encoders_als.pkl, take the Redis client, set
\* _loaded.
LoadEncoders ==
    /\ LoopFree
    /\ rd.pc = "loadenc"
    /\ CASE encFile.st = "complete" ->
                /\ svc' = [svc EXCEPT !.encoders = Loaded(encFile),
                                      !.redis_client = redisClient,
                                      !.loaded = TRUE]
                /\ rd' = [rd EXCEPT !.pc = AfterLoad(rd.op)]
          [] encFile.st = "absent" ->
                /\ rd' = [rd EXCEPT !.pc = "done", !.err = "not_trained"]
                /\ UNCHANGED svc
          [] encFile.st = "partial" ->
                /\ rd' = [rd EXCEPT !.pc = "done", !.err = "unpickle"]
                /\ UNCHANGED svc
    /\ UNCHANGED <<redisClient, cache, staleKeys, pretrainKeys, docs, modelFile, encFile,
                   wr, job, tsvc, api, csvFile, nruns>>
    /\ UNCHANGED <<prep, cf>>

\* get_recommendations lines 90-96: the cache check; a hit returns at once.
CacheCheck ==
    /\ LoopFree
    /\ rd.pc = "cache"
    /\ IF rd.use_cache /\ svc.redis_client # "none"
       THEN LET c == GetCachedRecommendations(svc.redis_client, cache, <<rd.user, rd.k>>) IN
            IF c.err # "none"
            THEN rd' = [rd EXCEPT !.pc = "done", !.err = c.err]
            ELSE IF c.hit
            THEN rd' = [rd EXCEPT !.pc = "done", !.hit = TRUE, !.res = c.res]
            ELSE rd' = [rd EXCEPT !.pc = "score", !.cache_failed = c.failed]
       ELSE rd' = [rd EXCEPT !.pc = "score"]
    /\ UNCHANGED <<redisClient, cache, staleKeys, pretrainKeys, docs, modelFile, encFile,
                   svc, wr, job, tsvc, api, csvFile, nruns>>
    /\ UNCHANGED <<prep, cf>>

\* get_recommendations lines 98-117 / get_similar_experiences lines 146-171:
\* read the encoders and the factors, pick the branch, stop at the database
\* await.
Score ==
    /\ LoopFree
    /\ rd.pc = "score"
    /\ LET s == IF rd.op = "rec"
                THEN ScoreRecommendations(svc.encoders, svc.model_data, rd.user)
                ELSE ScoreSimilar(svc.encoders, svc.model_data, ~rd.cold) IN
       IF s.err # "none"
       THEN rd' = [rd EXCEPT !.pc = "done", !.err = s.err, !.cold = FALSE]
       ELSE rd' = [rd EXCEPT !.pc = "db", !.res = s.res, !.cold = s.cold]
    /\ UNCHANGED <<redisClient, cache, staleKeys, pretrainKeys, docs, modelFile, encFile,
                   svc, wr, job, tsvc, api, csvFile, nruns>>
    /\ UNCHANGED <<prep, cf>>

\* The database await returns, the response is assembled and, in
\* get_recommendations lines 124-128, handed to _cache_recommendations.
Respond ==
    /\ LoopFree
    /\ rd.pc = "db"
    /\ rd' = [rd EXCEPT !.pc = "done"]
    /\ IF rd.op = "rec" /\ rd.use_cache /\ svc.redis_client # "none"
       THEN LET key == <<rd.user, rd.k>>
                after == CacheRecommendations(svc.redis_client, cache, key, rd.res) IN
            /\ cache' = after
            /\ staleKeys' = IF after = cache THEN staleKeys
                            ELSE IF rd.race # "none" THEN staleKeys \cup {key}
                            ELSE staleKeys \ {key}
            /\ pretrainKeys' = IF after = cache THEN pretrainKeys ELSE pretrainKeys \ {key}
       ELSE UNCHANGED <<cache, staleKeys, pretrainKeys>>
    /\ UNCHANGED <<redisClient, docs, modelFile, encFile, svc, wr, job, tsvc, api,
                   csvFile, nruns>>
    /\ UNCHANGED <<prep, cf>>

\* The recommendation handler returns its response (or the route turns the
\* exception into an HTTP error).
RecommendationReturn ==
    /\ LoopFree
    /\ rd.pc = "done"
    /\ rd' = IdleRd
    /\ UNCHANGED <<redisClient, cache, staleKeys, pretrainKeys, docs, modelFile, encFile,
                   svc, wr, job, tsvc, api, csvFile, nruns>>
    /\ UNCHANGED <<prep, cf>>

\* ------------------------------------------- scheduled retraining (thread)
\* History bookkeeping for a completed retraining: every entry now in the
\* keyspace predates it.
MarkPretrain == pretrainKeys' = pretrainKeys \cup {key \in Keys : cache[key].present}

\* The scheduler fires retrain_job, which starts retrain_from_mongodb.py.
RetrainJobStart ==
    /\ job.pc = "idle"
    /\ nruns < MaxRuns
    /\ nruns' = nruns + 1
    /\ job' = [pc |-> "read", run |-> nruns + 1, users |-> {}]
    /\ UNCHANGED <<redisClient, cache, staleKeys, pretrainKeys, docs, modelFile, encFile,
                   svc, rd, wr, tsvc, api, csvFile>>
    /\ UNCHANGED <<prep, cf>>

\* retrain_from_mongodb.py lines 29-117: read every interaction, fit the
\* encoders on it, train.  An empty collection makes the script raise, so
\* retrain_job sees a non-zero return code and returns.
RetrainRead ==
    /\ job.pc = "read"
    /\ IF ActiveUsers(docs) = {}
       THEN job' = IdleJob
       ELSE job' = [job EXCEPT !.pc = "open_model", !.users = ActiveUsers(docs)]
    /\ UNCHANGED <<redisClient, cache, staleKeys, pretrainKeys, docs, modelFile, encFile,
                   svc, rd, wr, tsvc, api, csvFile, nruns>>
    /\ UNCHANGED <<prep, cf>>

\* retrain_from_mongodb.py line 193: open(..., 'wb') truncates als_model.pkl.
RetrainOpenModel ==
    /\ job.pc = "open_model"
    /\ modelFile' = PartialFile(job.run)
    /\ job' = [job EXCEPT !.pc = "dump_model"]
    /\ UNCHANGED <<redisClient, cache, staleKeys, pretrainKeys, docs, encFile,
                   svc, rd, wr, tsvc, api, csvFile, nruns>>
    /\ UNCHANGED <<prep, cf>>

\* retrain_from_mongodb.py line 194: pickle.dump and close.
RetrainDumpModel ==
    /\ job.pc = "dump_model"
    /\ modelFile' = CompleteFile(job.run, job.users)
    /\ job' = [job EXCEPT !.pc = "open_enc"]
    /\ UNCHANGED <<redisClient, cache, staleKeys, pretrainKeys, docs, encFile,
                   svc, rd, wr, tsvc, api, csvFile, nruns>>
    /\ UNCHANGED <<prep, cf>>

\* retrain_from_mongodb.py line 203: open(..., 'wb') truncates encoders_als.pkl.
RetrainOpenEncoders ==
    /\ job.pc = "open_enc"
    /\ encFile' = PartialFile(job.run)
    /\ job' = [job EXCEPT !.pc = "dump_enc"]
    /\ UNCHANGED <<redisClient, cache, staleKeys, pretrainKeys, docs, modelFile,
                   svc, rd, wr, tsvc, api, csvFile, nruns>>
    /\ UNCHANGED <<prep, cf>>

\* retrain_from_mongodb.py line 204: pickle.dump and close; the script then
\* exits with code 0.
RetrainDumpEncoders ==
    /\ job.pc = "dump_enc"
    /\ encFile' = CompleteFile(job.run, job.users)
    /\ job' = [job EXCEPT !.pc = "exited"]
    /\ UNCHANGED <<redisClient, cache, staleKeys, pretrainKeys, docs, modelFile,
                   svc, rd, wr, tsvc, api, csvFile, nruns>>
    /\ UNCHANGED <<prep, cf>>

\* The 1800 s timeout of subprocess.run kills the script wherever it is;
\* retrain_job logs and returns.
RetrainTimeout ==
    /\ job.pc \in {"read", "open_model", "dump_model", "open_enc", "dump_enc"}
    /\ job' = IdleJob
    /\ UNCHANGED <<redisClient, cache, staleKeys, pretrainKeys, docs, modelFile, encFile,
                   svc, rd, wr, tsvc, api, csvFile, nruns>>
    /\ UNCHANGED <<prep, cf>>

\* retrain_job lines 62-70: return code 0, so the retraining has completed;
\* recommendation_service.model_data = None.
RetrainClearModel ==
    /\ job.pc = "exited"
    /\ svc' = [svc EXCEPT !.model_data = None]
    /\ MarkPretrain
    /\ job' = [job EXCEPT !.pc = "clear_enc"]
    /\ UNCHANGED <<redisClient, cache, staleKeys, docs, modelFile, encFile,
                   rd, wr, tsvc, api, csvFile, nruns>>
    /\ UNCHANGED <<prep, cf>>

\* retrain_job line 71: recommendation_service.encoders = None; the job ends.
RetrainClearEncoders ==
    /\ job.pc = "clear_enc"
    /\ svc' = [svc EXCEPT !.encoders = None]
    /\ job' = [job EXCEPT !.pc = "finished"]
    /\ UNCHANGED <<redisClient, cache, staleKeys, pretrainKeys, docs, modelFile, encFile,
                   rd, wr, tsvc, api, csvFile, nruns>>
    /\ UNCHANGED <<prep, cf>>

\* The scheduler thread is free again until the next interval.
RetrainJobEnd ==
    /\ job.pc = "finished"
    /\ job' = IdleJob
    /\ UNCHANGED <<redisClient, cache, staleKeys, pretrainKeys, docs, modelFile, encFile,
                   svc, rd, wr, tsvc, api, csvFile, nruns>>
    /\ UNCHANGED <<prep, cf>>

\* ------------------------------------- API-triggered training (event loop)
\* scripts/preprocess_interactions.py main: with no interaction it logs and
\* returns without writing; otherwise it writes processed_interactions.csv
\* (both thresholds are 1, so every user with a document is kept).
PreprocessCsv(d, csv) ==
    IF ActiveUsers(d) = {} THEN csv ELSE CompleteFile(0, ActiveUsers(d))

\* Variant: a failed run leaves the status it set when it started.
ReturnPreprocessing_noReset(t, result) ==
    [t EXCEPT !.training_status = IF result = "success" THEN "idle" ELSE "preprocessing",
              !.preprocess = result, !.returned = "run_preprocessing"]

\* run_preprocessing lines 66-96: the status when it returns, "idle" for
\* return code 0 and "failed" on every other path.
ReturnPreprocessing(t, result) ==
    [t EXCEPT !.training_status = IF result = "success" THEN "idle" ELSE "failed",
              !.preprocess = result, !.returned = "run_preprocessing"]

\* run_training lines 119-151: the status when it returns, "completed" for
\* return code 0, after the metadata is saved, and "failed" on every other
\* path.
ReturnTraining(t, result) ==
    [t EXCEPT !.training_status = IF result = "success" THEN "completed" ELSE "failed",
              !.last_training = IF result = "success" THEN "success" ELSE t.last_training,
              !.training = result, !.returned = "run_training"]

\* POST /api/training/preprocess: TrainingService.run_preprocessing, one
\* blocking call; ok = FALSE is a non-zero return code or the 300 s timeout.
RunPreprocessing ==
    /\ LoopFree
    /\ IF tsvc.training_status = "preprocessing"
       THEN /\ tsvc' = [tsvc EXCEPT !.preprocess = "rejected",
                                    !.returned = "run_preprocessing"]
            /\ UNCHANGED csvFile
       ELSE \E ok \in BOOLEAN :
            IF ok
            THEN /\ csvFile' = PreprocessCsv(docs, csvFile)
                 /\ tsvc' = ReturnPreprocessing(tsvc, "success")
            ELSE /\ tsvc' = ReturnPreprocessing(tsvc, "error")
                 /\ UNCHANGED csvFile
    /\ UNCHANGED <<redisClient, cache, staleKeys, pretrainKeys, docs, modelFile, encFile,
                   svc, rd, wr, job, api, nruns>>
    /\ UNCHANGED <<prep, cf>>

\* POST /api/training/train: TrainingService.run_training up to
\* subprocess.run of scripts/train_als_model.py.
RunTrainingStart ==
    /\ LoopFree
    /\ nruns < MaxRuns
    /\ tsvc.training_status # "training"
    /\ tsvc' = [tsvc EXCEPT !.training_status = "training"]
    /\ nruns' = nruns + 1
    /\ api' = [pc |-> "read", kind |-> "train", run |-> nruns + 1, users |-> {}]
    /\ UNCHANGED <<redisClient, cache, staleKeys, pretrainKeys, docs, modelFile, encFile,
                   svc, rd, wr, job, csvFile>>
    /\ UNCHANGED <<prep, cf>>

\* POST /api/training/full-pipeline: run_full_pipeline runs run_preprocessing
\* and, on its success, enters run_training without yielding to the loop.
RunFullPipelineStart ==
    /\ LoopFree
    /\ nruns < MaxRuns
    /\ tsvc.training_status \notin {"preprocessing", "training"}
    /\ \E ok \in BOOLEAN :
        IF ok
        THEN /\ csvFile' = PreprocessCsv(docs, csvFile)
             /\ tsvc' = [ReturnPreprocessing(tsvc, "success") EXCEPT
                            !.training_status = "training"]
             /\ nruns' = nruns + 1
             /\ api' = [pc |-> "read", kind |-> "full", run |-> nruns + 1, users |-> {}]
        ELSE /\ tsvc' = ReturnPreprocessing(tsvc, "error")
             /\ UNCHANGED <<csvFile, nruns, api>>
    /\ UNCHANGED <<redisClient, cache, staleKeys, pretrainKeys, docs, modelFile, encFile,
                   svc, rd, wr, job>>
    /\ UNCHANGED <<prep, cf>>

\* train_als_model.py lines 235-316: read the CSV and fit the encoders; a
\* missing CSV ends the script with a non-zero return code.
TrainRead ==
    /\ api.pc = "read"
    /\ IF csvFile.st = "absent"
       THEN /\ api' = IdleApi
            /\ tsvc' = ReturnTraining(tsvc, "error")
       ELSE /\ api' = [api EXCEPT !.pc = "open_enc", !.users = csvFile.users]
            /\ UNCHANGED tsvc
    /\ UNCHANGED <<redisClient, cache, staleKeys, pretrainKeys, docs, modelFile, encFile,
                   svc, rd, wr, job, csvFile, nruns>>
    /\ UNCHANGED <<prep, cf>>

\* train_als_model.py line 320: open(..., 'wb') truncates encoders_als.pkl.
TrainOpenEncoders ==
    /\ api.pc = "open_enc"
    /\ encFile' = PartialFile(api.run)
    /\ api' = [api EXCEPT !.pc = "dump_enc"]
    /\ UNCHANGED <<redisClient, cache, staleKeys, pretrainKeys, docs, modelFile,
                   svc, rd, wr, job, tsvc, csvFile, nruns>>
    /\ UNCHANGED <<prep, cf>>

\* train_als_model.py lines 321-324: pickle.dump and close; training follows.
TrainDumpEncoders ==
    /\ api.pc = "dump_enc"
    /\ encFile' = CompleteFile(api.run, api.users)
    /\ api' = [api EXCEPT !.pc = "open_model"]
    /\ UNCHANGED <<redisClient, cache, staleKeys, pretrainKeys, docs, modelFile,
                   svc, rd, wr, job, tsvc, csvFile, nruns>>
    /\ UNCHANGED <<prep, cf>>

\* train_als_model.py line 410: open(..., 'wb') truncates als_model.pkl.
TrainOpenModel ==
    /\ api.pc = "open_model"
    /\ modelFile' = PartialFile(api.run)
    /\ api' = [api EXCEPT !.pc = "dump_model"]
    /\ UNCHANGED <<redisClient, cache, staleKeys, pretrainKeys, docs, encFile,
                   svc, rd, wr, job, tsvc, csvFile, nruns>>
    /\ UNCHANGED <<prep, cf>>

\* train_als_model.py lines 411-414: pickle.dump and close.
TrainDumpModel ==
    /\ api.pc = "dump_model"
    /\ modelFile' = CompleteFile(api.run, api.users)
    /\ api' = [api EXCEPT !.pc = "example"]
    /\ UNCHANGED <<redisClient, cache, staleKeys, pretrainKeys, docs, encFile,
                   svc, rd, wr, job, tsvc, csvFile, nruns>>
    /\ UNCHANGED <<prep, cf>>

\* train_als_model.py lines 457-521 and run_training lines 119-137: the
\* example block after main decides the return code (its except handler
\* reads names that are unbound when processed_ratings.csv is missing);
\* return code 0 sets "completed" and saves the metadata, any other "failed".
TrainExit ==
    /\ api.pc = "example"
    /\ \E ok \in BOOLEAN :
        IF ok
        THEN /\ tsvc' = ReturnTraining(tsvc, "success")
             /\ MarkPretrain
        ELSE /\ tsvc' = ReturnTraining(tsvc, "error")
             /\ UNCHANGED pretrainKeys
    /\ api' = IdleApi
    /\ UNCHANGED <<redisClient, cache, staleKeys, docs, modelFile, encFile,
                   svc, rd, wr, job, csvFile, nruns>>
    /\ UNCHANGED <<prep, cf>>

\* The 1800 s timeout of subprocess.run in run_training, or the script
\* raising before it has written everything.
TrainTimeout ==
    /\ api.pc \in {"read", "open_enc", "dump_enc", "open_model", "dump_model"}
    /\ api' = IdleApi
    /\ tsvc' = ReturnTraining(tsvc, "error")
    /\ UNCHANGED <<redisClient, cache, staleKeys, pretrainKeys, docs, modelFile, encFile,
                   svc, rd, wr, job, csvFile, nruns>>
    /\ UNCHANGED <<prep, cf>>

\* ------------------------------------------------------ specifications
\* Request serving: recommendation and interaction requests on the event
\* loop, against the artifacts and the keyspace found at startup.
Next ==
    \/ CreateInteractionDb
    \/ DeleteInteractionDb
    \/ InvalidateKeys
    \/ InvalidateDelete
    \/ TestCreateInteraction
    \/ TestDeleteInteraction
    \/ InteractionReturn
    \/ GetRecommendationsStart
    \/ GetSimilarStart
    \/ LoadModelFile
    \/ LoadEncoders
    \/ CacheCheck
    \/ Score
    \/ Respond
    \/ RecommendationReturn

Spec == Init /\ [][Next]_vars

\* Scheduled retraining: the retrain_job thread and its subprocess, with
\* recommendation requests loading and using the artifacts it writes.
TrainNext ==
    \/ GetRecommendationsStart
    \/ GetSimilarStart
    \/ LoadModelFile
    \/ LoadEncoders
    \/ CacheCheck
    \/ Score
    \/ Respond
    \/ RecommendationReturn
    \/ RetrainJobStart
    \/ RetrainRead
    \/ RetrainOpenModel
    \/ RetrainDumpModel
    \/ RetrainOpenEncoders
    \/ RetrainDumpEncoders
    \/ RetrainTimeout
    \/ RetrainClearModel
    \/ RetrainClearEncoders
    \/ RetrainJobEnd

\* Startup with Redis connected and every recommendations key populated.
TrainInit ==
    /\ Init
    /\ redisClient = "conn"
    /\ cache = [key \in Keys |-> PreEntry]

TrainSpec == TrainInit /\ [][TrainNext]_vars

\* Training pipeline: the API-triggered preprocessing and training tasks on
\* the event loop next to the scheduled retrain_job thread.
PipelineNext ==
    \/ RetrainJobStart
    \/ RetrainRead
    \/ RetrainOpenModel
    \/ RetrainDumpModel
    \/ RetrainOpenEncoders
    \/ RetrainDumpEncoders
    \/ RetrainTimeout
    \/ RetrainClearModel
    \/ RetrainClearEncoders
    \/ RetrainJobEnd
    \/ RunPreprocessing
    \/ RunTrainingStart
    \/ RunFullPipelineStart
    \/ TrainRead
    \/ TrainOpenEncoders
    \/ TrainDumpEncoders
    \/ TrainOpenModel
    \/ TrainDumpModel
    \/ TrainExit
    \/ TrainTimeout

PipelineSpec == TrainInit /\ [][PipelineNext]_vars

\* ------------------------------------------------- preprocessing runs
\* The variables of the serving and training processes.
servingVars == <<redisClient, cache, staleKeys, pretrainKeys, docs, modelFile, encFile,
                 svc, rd, wr, job, tsvc, api, csvFile, nruns>>

\* No server running: nothing connected, loaded, stored or in flight.
ServingIdle ==
    /\ redisClient = "none"
    /\ cache = [key \in Keys |-> NoEntry]
    /\ staleKeys = {}
    /\ pretrainKeys = {}
    /\ docs = [u \in Users |-> 0]
    /\ modelFile = AbsentFile
    /\ encFile = AbsentFile
    /\ svc = [model_data |-> None, encoders |-> None, loaded |-> FALSE, redis_client |-> "none"]
    /\ rd = IdleRd
    /\ wr = IdleWr
    /\ job = IdleJob
    /\ tsvc = NewTrainingService
    /\ api = IdleApi
    /\ csvFile = AbsentFile
    /\ nruns = 0

BoundedSeq(S, n) == UNION {[1..k -> S] : k \in 0..n}

\* Raw records of a list: views and wishlist entries with or without an
\* explicit rating of 4.0.
ListRecords ==
    {RawRecord(u, e, t, r, FALSE, FALSE, 1) :
        u \in Users, e \in Items, t \in {"view", "wishlist"}, r \in {NoValue, Some(40)}}

\* Raw records over every interaction type and flag; user_id 0 is empty.
InteractionTypes == {"view", "click", "wishlist", "booking", "rating", "completed"}

SingleRecords ==
    {RawRecord(u, 1, t, r, b, c, 1) :
        u \in {0, 1}, t \in InteractionTypes, r \in {NoValue, Some(40)},
        b \in BOOLEAN, c \in BOOLEAN}

\* preprocess_interactions.py main lines 233-244: nothing fetched or nothing
\* valid ends the run, else the aggregated table is built.
ProcessInteractionsStep ==
    /\ prep.pc = "raw"
    /\ LET df == ProcessInteractions(prep.raw) IN
       IF prep.raw = <<>> \/ df = <<>>
       THEN prep' = [prep EXCEPT !.pc = "stopped"]
       ELSE prep' = [prep EXCEPT !.pc = "table", !.table = df]
    /\ UNCHANGED <<servingVars, cf>>

\* main line 247: filter_sparse_data on the aggregated table.
FilterSparseDataStep ==
    /\ prep.pc = "table"
    /\ LET res == FilterSparseData(prep.table) IN
       prep' = [prep EXCEPT !.pc = IF res.err = "none" THEN "filtered" ELSE "failed",
                            !.out = res]
    /\ UNCHANGED <<servingVars, cf>>

\* The filtered table is handed to the same code again as its input.
Reprocess ==
    /\ prep.pc = "filtered"
    /\ prep.pass = 1
    /\ prep' = [IdlePrep EXCEPT !.pc = "raw", !.pass = 2,
                                !.raw = RowsAsRecords(prep.out.df),
                                !.first = prep.out.df]
    /\ UNCHANGED <<servingVars, cf>>

\* recommender/preprocessing.py: InteractionPreprocessor(min_user, min_item)
\* .preprocess on the raw list.
PreprocessStep ==
    /\ prep.pc = "raw"
    /\ prep.pass = 1
    /\ \E min_user \in 1..MaxMin, min_item \in 1..MaxMin :
        prep' = [prep EXCEPT !.pc = "alt",
                             !.args = [min_user_interactions |-> min_user,
                                       min_item_interactions |-> min_item],
                             !.alt = Preprocess(prep.raw, min_user, min_item)]
    /\ UNCHANGED <<servingVars, cf>>

PrepNext ==
    \/ ProcessInteractionsStep
    \/ FilterSparseDataStep
    \/ Reprocess
    \/ PreprocessStep

\* Preprocessing of every list of up to MaxRaw raw records.
PrepInit ==
    /\ ServingIdle
    /\ cf = IdleCf
    /\ \E raw \in BoundedSeq(ListRecords, MaxRaw) :
        prep = [IdlePrep EXCEPT !.pc = "raw", !.raw = raw]

PrepSpec == PrepInit /\ [][PrepNext]_vars

\* Raw records of one user without flags or explicit rating, created at
\* different times.
StampedRecords ==
    {RawRecord(1, e, t, NoValue, FALSE, FALSE, ts) :
        e \in Items, t \in {"view", "click", "wishlist"}, ts \in 1..MaxRaw}

\* Preprocessing of every list of up to MaxRaw timed records.
AggInit ==
    /\ ServingIdle
    /\ cf = IdleCf
    /\ \E raw \in BoundedSeq(StampedRecords, MaxRaw) :
        prep = [IdlePrep EXCEPT !.pc = "raw", !.raw = raw]

AggSpec == AggInit /\ [][PrepNext]_vars

\* One pass of a filter loop: the counter, the filter, the convergence test
\* and the new prev_size.
LoopPass(loop) ==
    LET df == FilterPassWith(loop.df, loop.min_user, loop.min_item)
    IN [loop EXCEPT !.iteration = loop.iteration + 1, !.df = df, !.prev_size = Len(df)]

\* filter_sparse_data lines 165-189: one round of the while loop, which
\* ends on convergence or when iteration exceeds the cap.
FilterSparseDataPass ==
    /\ prep.pc = "loop"
    /\ prep.loop.which = "filter_sparse_data"
    /\ LET next == LoopPass(prep.loop) IN
       prep' = [prep EXCEPT
                   !.pc = IF \/ Converged(next.df, prep.loop.prev_size)
                             \/ next.iteration > MAX_FILTER_ITERATIONS
                          THEN "done" ELSE "loop",
                   !.loop = next]
    /\ UNCHANGED <<servingVars, cf>>

\* train_als_model.py main lines 250-262: one round of the while loop,
\* which ends on convergence only.  The guard keeps the counter finite.
TrainAlsFilterPass ==
    /\ prep.pc = "loop"
    /\ prep.loop.which = "train_als_model"
    /\ prep.loop.iteration <= MAX_FILTER_ITERATIONS
    /\ LET next == LoopPass(prep.loop) IN
       prep' = [prep EXCEPT
                   !.pc = IF Converged(next.df, prep.loop.prev_size) THEN "done" ELSE "loop",
                   !.loop = next]
    /\ UNCHANGED <<servingVars, cf>>

LoopNext ==
    \/ FilterSparseDataPass
    \/ TrainAlsFilterPass

\* Every table of distinct (user, item) pairs enters either loop; the
\* thresholds are the values of the source, 1, and the larger ones up to
\* MaxMin.
LoopInit ==
    /\ ServingIdle
    /\ cf = IdleCf
    /\ \E pairs \in SUBSET (Users \X Items),
          which \in {"filter_sparse_data", "train_als_model"},
          min_user \in MIN_USER_INTERACTIONS..MaxMin,
          min_item \in MIN_EXPERIENCE_INTERACTIONS..MaxMin :
        LET keys == SortPairs(pairs)
            df == [i \in DOMAIN keys |-> StampedRow(keys[i][1], keys[i][2], 10, 1)]
        IN prep = [IdlePrep EXCEPT !.pc = "loop",
                                   !.loop = LoopStart(which, df, min_user, min_item)]

\* The interpreter keeps running the loop.
LoopSpec == LoopInit /\ [][LoopNext]_vars /\ WF_vars(LoopNext)

\* The item ids of the click logs: one more than Items.
LogItems == 1..(MaxItems + 1)

\* Preprocessing of every click log that has each (user, item) pair at most
\* once.
PairsInit ==
    /\ ServingIdle
    /\ cf = IdleCf
    /\ \E pairs \in SUBSET (Users \X LogItems) :
        LET keys == SortPairs(pairs) IN
        prep = [IdlePrep EXCEPT
                   !.pc = "raw",
                   !.raw = [i \in DOMAIN keys |->
                               RawRecord(keys[i][1], keys[i][2], "click", NoValue,
                                         FALSE, FALSE, 1)]]

PairsSpec == PairsInit /\ [][PrepNext]_vars

\* train_als_model.py main: the table written by the preprocessing is read,
\* a part of its rows becomes the training set and the matrix passed to
\* ImplicitALS(alpha=ALPHA).fit is built from it.
TrainAlsBuildMatrix ==
    /\ prep.pc = "interactions"
    /\ LET table == ProcessInteractions(prep.raw)
           filtered == FilterSparseData(table)
       IN /\ table # <<>>
          /\ filtered.err = "none"
          /\ \E train \in SUBSET DOMAIN filtered.df :
                prep' = [prep EXCEPT
                            !.pc = "matrix",
                            !.table = filtered.df,
                            !.out = [path |-> "train_als_model", alpha |-> ALPHA,
                                     matrix |-> TrainAlsMatrix(KeepIndices(filtered.df, train))]]
    /\ UNCHANGED <<servingVars, cf>>

\* retrain_from_mongodb.py main: the interactions are read and the matrix
\* passed to ImplicitALS(alpha=40).fit is built from them.
RetrainBuildMatrix ==
    /\ prep.pc = "interactions"
    /\ prep.raw # <<>>
    /\ prep' = [prep EXCEPT
                   !.pc = "matrix",
                   !.out = [path |-> "retrain_from_mongodb", alpha |-> RetrainAlpha,
                            matrix |-> RetrainMatrix(prep.raw)]]
    /\ UNCHANGED <<servingVars, cf>>

MatrixNext ==
    \/ TrainAlsBuildMatrix
    \/ RetrainBuildMatrix

\* Every list of up to MaxRaw views and wishlist entries in the database.
MatrixInit ==
    /\ ServingIdle
    /\ cf = IdleCf
    /\ \E raw \in BoundedSeq({RawRecord(u, e, t, NoValue, FALSE, FALSE, 1) :
                                   u \in Users, e \in Items, t \in {"view", "wishlist"}},
                              MaxRaw) :
        prep = [IdlePrep EXCEPT !.pc = "interactions", !.raw = raw]

MatrixSpec == MatrixInit /\ [][MatrixNext]_vars

\* Preprocessing of every single raw record.
ConvertInit ==
    /\ ServingIdle
    /\ cf = IdleCf
    /\ \E r \in SingleRecords :
        prep = [IdlePrep EXCEPT !.pc = "raw", !.raw = <<r>>]

ConvertSpec == ConvertInit /\ [][PrepNext]_vars

\* ------------------------------------------------ recommender model runs
\* A model trained with one latent factor.
OneFactorHyper == [DefaultHyper EXCEPT !.n_factors = 1]

\* The models trained on the interactions of the users in fitted, over every
\* item: the CollaborativeFilteringModel, whose encoder is fitted on those
\* users, and the CollaborativeFilteringSVD of train_cf_model.py, whose
\* encoder is fitted on every user and whose fit sees the indices of fitted.
TrainedPair(hyper, fitted, uf, itf) ==
    [IdleCf EXCEPT
        !.pc = "trained",
        !.model = TrainedModel(hyper, fitted, Items,
                               [i \in 1..Cardinality(fitted) |-> <<uf[i]>>],
                               [i \in 1..MaxItems |-> <<itf[i]>>],
                               [i \in 1..MaxItems |-> 0]),
        !.svd = SvdFitted({u - 1 : u \in fitted}, {e - 1 : e \in Items},
                          [i \in 1..Max(fitted) |-> <<uf[i]>>],
                          [i \in 1..MaxItems |-> <<itf[i]>>],
                          [i \in 1..MaxItems |-> 0])]

ExcludeChoices(S) == {NoValue} \cup {Some(X) : X \in SUBSET S}

\* CollaborativeFilteringModel.recommend_for_user on the trained model.
RecommendForUserCall ==
    /\ cf.pc = "trained"
    /\ \E user_id \in Users \cup {NUsers + 1}, top_k \in 0..MaxTopK,
          exclude_items \in ExcludeChoices(Items) :
        cf' = [cf EXCEPT !.pc = "recommended",
                         !.q = [user_id |-> user_id, top_k |-> top_k,
                                exclude_items |-> exclude_items],
                         !.res = RecommendForUser(cf.model, user_id, top_k, exclude_items)]
    /\ UNCHANGED <<servingVars, prep>>

\* CollaborativeFilteringSVD.recommend_for_user on the fitted model.
SvdRecommendForUserCall ==
    /\ cf.pc = "trained"
    /\ \E user_idx \in 0..NUsers, top_k \in 0..MaxTopK,
          exclude_items \in ExcludeChoices(0..(MaxItems - 1)) :
        cf' = [cf EXCEPT !.pc = "svd_recommended",
                         !.q = [user_idx |-> user_idx, top_k |-> top_k,
                                exclude_items |-> exclude_items],
                         !.res = SvdRecommendForUser(cf.svd, user_idx, top_k, exclude_items)]
    /\ UNCHANGED <<servingVars, prep>>

Encoder(model, which) ==
    IF which = "user" THEN model.user_encoder ELSE model.item_encoder

\* encoder.transform([id])[0] for a fitted id, then inverse_transform of the
\* index.
EncodeId ==
    /\ cf.pc = "trained"
    /\ \E which \in {"user", "item"} :
        \E id \in Encoder(cf.model, which) :
            LET idx == Transform(Encoder(cf.model, which), id) IN
            cf' = [cf EXCEPT !.pc = "encoded",
                             !.q = [which |-> which, id |-> id],
                             !.res = [idx |-> idx,
                                      back |-> InverseTransform(Encoder(cf.model, which), idx)]]
    /\ UNCHANGED <<servingVars, prep>>

\* encoder.inverse_transform([i])[0] for a valid index, then transform of
\* the id.
DecodeIndex ==
    /\ cf.pc = "trained"
    /\ \E which \in {"user", "item"} :
        \E i \in 0..(Cardinality(Encoder(cf.model, which)) - 1) :
            LET id == InverseTransform(Encoder(cf.model, which), i) IN
            cf' = [cf EXCEPT !.pc = "decoded",
                             !.q = [which |-> which, i |-> i],
                             !.res = [id |-> id,
                                      back |-> Transform(Encoder(cf.model, which), id)]]
    /\ UNCHANGED <<servingVars, prep>>

SgdNext ==
    \/ RecommendForUserCall
    \/ SvdRecommendForUserCall
    \/ EncodeId
    \/ DecodeIndex

\* Every model of one latent factor over the fitted users and the items.
SgdInit ==
    /\ ServingIdle
    /\ prep = IdlePrep
    /\ \E fitted \in SUBSET Users \ {{}}, uf \in [1..NUsers -> {-1, 1}],
          itf \in [1..MaxItems -> {-1, 0, 1}] :
        cf = TrainedPair(OneFactorHyper, fitted, uf, itf)

SgdSpec == SgdInit /\ [][SgdNext]_vars

\* One call of CollaborativeFilteringModel._sgd_step in the training loop.
SgdStepCall ==
    /\ cf.pc = "params"
    /\ \E rating \in {0, 1, 5} :
        cf' = [cf EXCEPT !.pc = "stepped",
                         !.q = [rating |-> rating, class |-> "model"],
                         !.res = SgdStep(cf.model, rating)]
    /\ UNCHANGED <<servingVars, prep>>

\* One call of CollaborativeFilteringSVD._sgd_step in fit; its ratings are
\* on the 0-1 scale.
SvdSgdStepCall ==
    /\ cf.pc = "params"
    /\ \E rating \in {0, 1} :
        cf' = [cf EXCEPT !.pc = "stepped",
                         !.q = [rating |-> rating, class |-> "svd"],
                         !.res = SvdSgdStep(cf.model, rating)]
    /\ UNCHANGED <<servingVars, prep>>

StepNext ==
    \/ SgdStepCall
    \/ SvdSgdStepCall

\* Parameters in the middle of training, with whole-number values and
\* hyperparameters so that the arithmetic of a step is exact.
StepInit ==
    /\ ServingIdle
    /\ prep = IdlePrep
    /\ \E global_mean \in {0, 1}, user_bias \in {0, 1}, item_bias \in {0, 1},
          p \in {-1, 1}, q \in {-1, 0, 1}, learning_rate \in {1, 2},
          regularization \in {0, 1} :
        cf = [IdleCf EXCEPT
                 !.pc = "params",
                 !.model = StepParams(global_mean, user_bias, item_bias, <<p>>, <<q>>,
                                      learning_rate, regularization)]

StepSpec == StepInit /\ [][StepNext]_vars

\* als_model.recommend(user_idx, user_items_row, N, filter_already_liked_items)
\* on the fitted factors.
AlsRecommendCall ==
    /\ cf.pc = "fitted"
    /\ \E liked_items \in SUBSET (0..(MaxItems - 1)), N \in 0..(MaxTopK + 1),
          filter_already_liked_items \in BOOLEAN :
        \E result \in AlsRecommend(cf.model.user_row, cf.model.item_factors, liked_items,
                                    N, filter_already_liked_items) :
            cf' = [cf EXCEPT !.pc = "als_recommended",
                             !.q = [liked_items |-> liked_items, N |-> N,
                                    filter_already_liked_items |-> filter_already_liked_items],
                             !.res = result]
    /\ UNCHANGED <<servingVars, prep>>

\* The caller takes the result; the fitted model stays.
AlsRecommendReturn ==
    /\ cf.pc = "als_recommended"
    /\ cf' = [cf EXCEPT !.pc = "fitted", !.q = <<>>, !.res = <<>>]
    /\ UNCHANGED <<servingVars, prep>>

\* The held-out dictionaries {user_idx: set(item_idx)} that the groupby of
\* main line 375 can build: every user in it has a non-empty set.
HeldOutDicts ==
    UNION {[U -> (SUBSET (0..(MaxItems - 1))) \ {{}}] : U \in SUBSET (0..(NUsers - 1))}

\* main lines 386-393: calculate_metrics on the fitted model.
CalculateMetricsCall ==
    /\ cf.pc = "fitted"
    /\ \E test_user_items \in HeldOutDicts, K \in 1..MaxTopK :
        cf' = [cf EXCEPT !.pc = "evaluated",
                         !.q = [test_user_items |-> test_user_items, K |-> K],
                         !.res = CalculateMetrics(test_user_items, K)]
    /\ UNCHANGED <<servingVars, prep>>

AlsNext ==
    \/ AlsRecommendCall
    \/ AlsRecommendReturn
    \/ CalculateMetricsCall

\* Fitted factors of one latent dimension: the row of the user and the
\* rows of MaxItems items.
AlsInit ==
    /\ ServingIdle
    /\ prep = IdlePrep
    /\ \E p \in {-1, 1}, itf \in [1..MaxItems -> {-1, 0, 1}] :
        cf = [IdleCf EXCEPT !.pc = "fitted",
                            !.model = [user_row |-> <<p>>,
                                       item_factors |-> [i \in 1..MaxItems |-> <<itf[i]>>]]]

AlsSpec == AlsInit /\ [][AlsNext]_vars

\* model.save(model_path, encoder_path).
SaveModel ==
    /\ cf.pc = "trained"
    /\ cf' = [cf EXCEPT !.pc = "saved", !.saved = Save(cf.model)]
    /\ UNCHANGED <<servingVars, prep>>

\* CollaborativeFilteringModel.load(model_path, encoder_path).
LoadModel ==
    /\ cf.pc = "saved"
    /\ cf' = [cf EXCEPT !.pc = "loaded",
                        !.loaded = Load(cf.saved.model_data, cf.saved.encoder_data)]
    /\ UNCHANGED <<servingVars, prep>>

PersistNext ==
    \/ SaveModel
    \/ LoadModel

\* Constructor arguments: the defaults and one other value of each.
HyperChoices ==
    {[n_factors |-> 1, n_epochs |-> e, learning_rate |-> l, regularization |-> r,
      algorithm |-> a] :
        e \in {20, 30}, l \in {5, 10}, r \in {20, 50}, a \in {"svd", "als"}}

PersistInit ==
    /\ ServingIdle
    /\ prep = IdlePrep
    /\ \E hyper \in HyperChoices, fitted \in SUBSET Users \ {{}},
          itf \in [1..MaxItems -> {-1, 0, 1}] :
        cf = TrainedPair(hyper, fitted, [i \in 1..NUsers |-> 1], itf)

PersistSpec == PersistInit /\ [][PersistNext]_vars

\* Factor vectors of the ALS model_data: two components.
Vec2 == {<<x, y>> : x \in {0, 1, 2}, y \in {-1, 0, 1}}

\* get_similar_experiences for an experience_id of the item encoder: the
\* ids it hands to _build_recommendations_response.
SimilarQuery ==
    /\ cf.pc = "als"
    /\ \E experience_id \in cf.model.item_encoder, top_k \in 1..MaxTopK :
        LET item_factors == cf.model.item_factors
            item_vec == item_factors[Transform(cf.model.item_encoder, experience_id) + 1]
        IN \E order \in ArgsortOrders(item_factors, item_vec) :
            cf' = [cf EXCEPT !.pc = "similar",
                             !.q = [experience_id |-> experience_id, top_k |-> top_k],
                             !.res = SimilarItems(item_factors, cf.model.item_encoder,
                                                  experience_id, top_k, order)]
    /\ UNCHANGED <<servingVars, prep>>

\* The served request returns; the loaded model stays.
SimilarReturn ==
    /\ cf.pc = "similar"
    /\ cf' = [cf EXCEPT !.pc = "als", !.q = <<>>, !.res = <<>>]
    /\ UNCHANGED <<servingVars, prep>>

SimilarNext ==
    \/ SimilarQuery
    \/ SimilarReturn

\* The classes_ of the loaded item encoder: the query item and at least two
\* others.
SimilarIds == 1..(MaxItems + 1)

\* Every loaded pair of item_factors over Vec2 and an item encoder of the
\* same size.
SimilarInit ==
    /\ ServingIdle
    /\ prep = IdlePrep
    /\ \E f \in [SimilarIds -> Vec2] :
        cf = [IdleCf EXCEPT !.pc = "als",
                            !.model = [item_factors |-> f, item_encoder |-> SimilarIds,
                                       is_trained |-> TRUE]]

SimilarSpec == SimilarInit /\ [][SimilarNext]_vars

\* ---------------------------------------------------------------- claims
UserHasKey(u) == \E k \in TopKs : cache[<<u, k>>].present

\* C1: when create_interaction, or a delete_interaction that deleted a
\* document, has finished with no cache call failing, the keyspace holds no
\* recommendations key of that user, whatever the top_k.
C1_NoKeyAfterInteraction ==
    (wr.pc = "done" /\ wr.op \in {"create", "delete"} /\ wr.written /\ wr.cleared)
        => ~UserHasKey(wr.user)

\* C1 witness: a create_interaction has finished after deleting keys it found.
C1_Witness ==
    wr.pc = "done" /\ wr.op = "create" /\ wr.cleared /\ Cardinality(wr.keys) = MaxTopK

\* C2: after any handler that wrote or deleted an interaction of a user has
\* finished with Redis connected and no cache call failing, no entry of that
\* user that predates the write remains; the test endpoints included.
C2_EveryWriteInvalidates ==
    (wr.pc = "done" /\ wr.written /\ redisClient = "conn" /\ ~wr.raised)
        => \A k \in TopKs : <<wr.user, k>> \notin staleKeys

\* C3: no entry that predates a completed retraining remains in the
\* recommendations namespace.
C3_RetrainingInvalidatesNamespace ==
    \A key \in Keys : cache[key].present => key \notin pretrainKeys

\* C4: a recommendation or similar-experiences request that starts after
\* retrain_job has cleared the in-memory model scores against a reloaded
\* model and encoders and does not fail.
C4_ReloadsAfterRetrain ==
    /\ (rd.after_retrain /\ rd.pc = "score") => svc.model_data.set /\ svc.encoders.set
    /\ (rd.after_retrain /\ rd.pc = "done") => rd.err = "none"

\* C5: the model and the encoders held by the service come from the same
\* training run.
C5_LoadedPairFromOneRun ==
    (svc.model_data.set /\ svc.encoders.set) => svc.model_data.run = svc.encoders.run

\* C6: the service never holds a loaded pair whose factor-matrix row count
\* differs from the encoder's class count.
C6_MismatchedPairRejected ==
    (svc.loaded /\ svc.model_data.set /\ svc.encoders.set)
        => Cardinality(svc.model_data.users) = Cardinality(svc.encoders.users)

\* C7: a request never ends in an error raised by the cache layer; a failed
\* cache read is a miss answered by the recomputed result, and an
\* interaction that was written is returned whether or not the invalidation
\* raised.
C7_CacheFailureIsAMiss ==
    /\ rd.pc = "done" => rd.err \in {"none", "not_trained", "unpickle", "cleared", "index"}
    /\ (rd.pc = "done" /\ rd.cache_failed /\ rd.err = "none")
          => ~rd.hit /\ rd.res \in {PopResult} \cup {AlsResult(r) : r \in 0..MaxRuns}
    /\ (wr.pc = "done" /\ wr.op \in {"create", "delete"} /\ wr.written) => wr.err = "none"

\* C7 witness: a recommendation answered after its cache read failed, next to
\* an interaction returned after its invalidation raised.
C7_Witness ==
    /\ rd.pc = "done" /\ rd.cache_failed /\ rd.err = "none" /\ rd.res.model = ALS
    /\ wr.pc = "done" /\ wr.op = "create" /\ wr.raised /\ wr.err = "none"

\* C8: a get_recommendations request with use_cache and a connected client
\* that missed leaves its result stored under (user_id, top_k).
C8_MissCreatesEntry ==
    (rd.pc = "done" /\ rd.op = "rec" /\ rd.use_cache /\ svc.redis_client = "conn"
       /\ ~rd.hit /\ rd.err = "none")
        => cache[<<rd.user, rd.k>>] = Entry(rd.res)

\* C9: a get_recommendations request for a user id absent from the loaded
\* user encoder ends without error in the popularity-based result.
C9_ColdStartIsPopularity ==
    (rd.pc = "done" /\ rd.op = "rec" /\ svc.encoders.set /\ rd.user \notin svc.encoders.users)
        => rd.err = "none" /\ rd.res = PopResult

\* C9 witness: such a request, made with use_cache, has been answered.
C9_Witness ==
    /\ rd.pc = "done" /\ rd.op = "rec" /\ rd.use_cache /\ rd.k = MaxTopK
    /\ svc.encoders.set /\ rd.user \notin svc.encoders.users /\ rd.res = PopResult

\* C10: with the model or the encoder artifact absent, a recommendation
\* request is answered by the popularity result and not by an error.
C10_NoModelIsPopularity ==
    (rd.pc = "done" /\ rd.op = "rec" /\ (modelFile.st = "absent" \/ encFile.st = "absent"))
        => rd.err = "none" /\ rd.res = PopResult

NoDuplicatePairs(df) ==
    \A i, j \in DOMAIN df : PairOf(df[i]) = PairOf(df[j]) => i = j

ObservedPairs(raw) ==
    {<<raw[i].user_id, raw[i].experience_id>> : i \in DOMAIN raw}

\* C11: the table built by process_interactions has exactly one row for each
\* (user_id, experience_id) pair of the raw list, and the table returned by
\* preprocess has no pair twice, however many records a pair had.
C11_OneRowPerPair ==
    /\ (prep.pc = "table" /\ prep.pass = 1) =>
          /\ NoDuplicatePairs(prep.table)
          /\ {PairOf(prep.table[i]) : i \in DOMAIN prep.table} = ObservedPairs(prep.raw)
    /\ prep.pc = "alt" => NoDuplicatePairs(prep.alt.df)

\* C11 witness: MaxRaw records of one pair with different ratings became one
\* row.
C11_Witness ==
    /\ prep.pc = "table" /\ prep.pass = 1
    /\ Len(prep.raw) = MaxRaw /\ Len(prep.table) = 1
    /\ \E i, j \in DOMAIN prep.raw :
          ConvertToImplicitRating(prep.raw[i]) # ConvertToImplicitRating(prep.raw[j])

\* C13: process_interactions then filter_sparse_data applied to their own
\* output return the same rows with the same ratings.
C13_PreprocessingIdempotent ==
    (prep.pc = "filtered" /\ prep.pass = 2) =>
        /\ Len(prep.out.df) = Len(prep.first)
        /\ {prep.out.df[i] : i \in DOMAIN prep.out.df} = {prep.first[i] : i \in DOMAIN prep.first}

\* C13 witness: a second run over a table of MaxRaw rows, one of them rated
\* by its type weight, has finished.
C13_Witness ==
    /\ prep.pc = "filtered" /\ prep.pass = 2
    /\ Len(prep.first) = MaxRaw
    /\ \E i \in DOMAIN prep.first : prep.first[i].rating = 30

PriorityRating(r) ==
    IF r.completed \/ r.booked THEN 50
    ELSE IF r.rating # NoValue THEN r.rating[1]
    ELSE CASE r.interaction_type = "view" -> 10
           [] r.interaction_type = "click" -> 20
           [] r.interaction_type = "wishlist" -> 30
           [] r.interaction_type = "booking" -> 50
           [] r.interaction_type = "completed" -> 50
           [] OTHER -> 10

\* C14: the rating of a raw record follows the priority rule: completed or
\* booked gives 5.0, else the explicit rating, else the type weight with
\* booking and completed at 5.0, else 1.0.
C14_RatingPriority ==
    (prep.pc = "table" /\ prep.pass = 1 /\ Len(prep.raw) = 1) =>
        prep.table[1].rating = PriorityRating(prep.raw[1])

\* C15: with no rating row to write (no interaction that yields one), the
\* status returned by run_preprocessing is not success and run_full_pipeline
\* has not entered training.
C15_EmptyTableIsFailure ==
    ActiveUsers(docs) = {} =>
        /\ tsvc.preprocess # "success"
        /\ ~(api.kind = "full" /\ api.pc # "idle")

\* C16: for the user and item encoders of a trained model, decode(encode(id))
\* is id for every fitted id, encode(decode(i)) is i for every index below
\* the fitted count, and an encoded id lies in that index range.
C16_EncoderRoundTrip ==
    /\ cf.pc = "encoded" =>
          /\ cf.res.back = cf.q.id
          /\ cf.res.idx \in 0..(Cardinality(Encoder(cf.model, cf.q.which)) - 1)
    /\ cf.pc = "decoded" =>
          /\ cf.res.back = cf.q.i
          /\ cf.res.id \in Encoder(cf.model, cf.q.which)

\* C16 witness: the largest of NUsers fitted user ids was encoded to a
\* non-zero index and decoded back.
C16_Witness ==
    /\ cf.pc = "encoded" /\ cf.q.which = "user"
    /\ cf.model.n_users = NUsers
    /\ cf.q.id = NUsers /\ cf.res.idx = NUsers - 1

\* C17: recommend_for_user of a trained model, called for a user that was
\* never passed to fit, returns an empty list and does not raise, in the
\* CollaborativeFilteringModel and in the CollaborativeFilteringSVD.
C17_UnknownUserEmpty ==
    /\ (cf.pc = "recommended" /\ cf.q.user_id \notin cf.model.user_encoder) =>
          cf.res = [err |-> "none", list |-> <<>>]
    /\ (cf.pc = "svd_recommended" /\ cf.q.user_idx \notin cf.svd.fitted_users) =>
          cf.res = <<>>

\* The pairs of a recommendation list satisfy the top-K contract for the
\* candidate items and their scores.
IsTopK(list, top_k, candidates, excluded, score(_)) ==
    LET allowed == candidates \ excluded
        returned == {list[i][1] : i \in DOMAIN list}
    IN /\ Len(list) = Min(top_k, Cardinality(allowed))
       /\ Cardinality(returned) = Len(list)
       /\ returned \subseteq allowed
       /\ \A i \in DOMAIN list : list[i][2] = score(list[i][1])
       /\ \A i, j \in DOMAIN list : i < j => list[i][2] >= list[j][2]
       /\ \A x \in allowed \ returned : \A i \in DOMAIN list : score(x) <= list[i][2]

ExcludedSet(exclude_items) == IF exclude_items = NoValue THEN {} ELSE exclude_items[1]

\* C18: for a known user, recommend_for_user returns min(top_k, number of
\* fitted items not excluded) pairs, none excluded, in non-increasing score
\* order, and no non-excluded item left out scores strictly higher than a
\* returned one.
C18_TopKContract ==
    /\ (cf.pc = "recommended" /\ cf.q.user_id \in cf.model.user_encoder) =>
          /\ cf.res.err = "none"
          /\ IsTopK(cf.res.list, cf.q.top_k, cf.model.item_encoder,
                    ExcludedSet(cf.q.exclude_items),
                    LAMBDA item_id :
                        PredictSingle(cf.model,
                                      Cardinality({u \in cf.model.user_encoder : u < cf.q.user_id}),
                                      Cardinality({e \in cf.model.item_encoder : e < item_id})))
    /\ (cf.pc = "svd_recommended" /\ cf.q.user_idx \in cf.svd.fitted_users) =>
          IsTopK(cf.res, cf.q.top_k, 0..(cf.svd.n_items - 1),
                 ExcludedSet(cf.q.exclude_items),
                 LAMBDA item_idx : SvdPredictSingle(cf.svd, cf.q.user_idx, item_idx))

\* C18 witness: a known user asked for one item with nothing excluded; the
\* returned item scores strictly higher than an item left out that comes
\* before it in the encoder.
C18_Witness ==
    /\ cf.pc = "recommended" /\ cf.q.user_id \in cf.model.user_encoder
    /\ cf.q.top_k = 1 /\ cf.q.exclude_items = NoValue
    /\ Len(cf.res.list) = 1
    /\ \E x \in cf.model.item_encoder :
          /\ x < cf.res.list[1][1]
          /\ PredictSingle(cf.model,
                           Cardinality({u \in cf.model.user_encoder : u < cf.q.user_id}),
                           Cardinality({e \in cf.model.item_encoder : e < x}))
                < cf.res.list[1][2]

HyperNames == {"n_factors", "n_epochs", "learning_rate", "regularization", "algorithm"}

ParamNames ==
    {"user_factors", "item_factors", "user_bias", "item_bias", "global_mean",
     "user_encoder", "item_encoder"}

\* C19: the model loaded from the two saved artifacts has the
\* hyperparameters of the saved model (n_factors, n_epochs, learning_rate,
\* regularization, algorithm) and its factors, biases, global_mean and
\* encoders.
C19_LoadRestoresModel ==
    cf.pc = "loaded" =>
        \A name \in HyperNames \cup ParamNames : cf.loaded[name] = cf.model[name]

\* The similarity get_similar_experiences gives item id x for the query.
QuerySimilarity(x) ==
    Similarity(cf.model.item_factors,
               cf.model.item_factors[Cardinality({e \in cf.model.item_encoder :
                                                     e < cf.q.experience_id}) + 1],
               Cardinality({e \in cf.model.item_encoder : e < x}))

StrictlyMoreSimilar(x, y) == ~SimLeq(QuerySimilarity(x), QuerySimilarity(y))

\* C20: for an item id of the item encoder and top_k >= 1, the selected
\* items are at most top_k, distinct items of the encoder, never the query
\* item, in non-increasing similarity order, and no other unselected item
\* is strictly more similar than a selected one.
C20_SimilarItemsContract ==
    cf.pc = "similar" =>
        LET selected == {cf.res[i] : i \in DOMAIN cf.res} IN
        /\ Len(cf.res) <= cf.q.top_k
        /\ Cardinality(selected) = Len(cf.res)
        /\ selected \subseteq cf.model.item_encoder \ {cf.q.experience_id}
        /\ \A i, j \in DOMAIN cf.res : i < j => ~StrictlyMoreSimilar(cf.res[j], cf.res[i])
        /\ \A x \in cf.model.item_encoder \ (selected \cup {cf.q.experience_id}) :
              \A i \in DOMAIN cf.res : ~StrictlyMoreSimilar(x, cf.res[i])

\* C20 witness: a query of top_k = 1 over items that are not all equally
\* similar selected one item, which is not the query item, and left another
\* item, strictly less similar, unselected.
C20_Witness ==
    /\ cf.pc = "similar" /\ cf.q.top_k = 1
    /\ Len(cf.res) = 1
    /\ \E x \in cf.model.item_encoder \ {cf.q.experience_id, cf.res[1]} :
          StrictlyMoreSimilar(cf.res[1], x)

RecordsOf(raw, row) == {i \in DOMAIN raw : PairOf(raw[i]) = PairOf(row)}

\* C21: each row of the table built by process_interactions carries the
\* largest rating derived from the raw records of its pair and the latest
\* created_at of those records.
C21_AggregatesByMax ==
    (prep.pc = "table" /\ prep.pass = 1) =>
        \A k \in DOMAIN prep.table :
            LET row == prep.table[k]
                mine == RecordsOf(prep.raw, row)
            IN /\ mine # {}
               /\ \E i \in mine : ConvertToImplicitRating(prep.raw[i]) = row.rating
               /\ \A i \in mine : ConvertToImplicitRating(prep.raw[i]) <= row.rating
               /\ \E i \in mine : prep.raw[i].created_at = row.created_at
               /\ \A i \in mine : prep.raw[i].created_at <= row.created_at

\* C21 witness: a pair whose latest record is not its best rated one: the
\* row has the rating of the earlier record and the time of the later one.
C21_Witness ==
    /\ prep.pc = "table" /\ prep.pass = 1
    /\ \E k \in DOMAIN prep.table :
          \E i, j \in RecordsOf(prep.raw, prep.table[k]) :
              /\ i < j
              /\ prep.raw[i].created_at < prep.raw[j].created_at
              /\ ConvertToImplicitRating(prep.raw[i]) > ConvertToImplicitRating(prep.raw[j])
              /\ prep.table[k].rating = ConvertToImplicitRating(prep.raw[i])
              /\ prep.table[k].created_at = prep.raw[j].created_at

\* C22: both filter loops terminate: filter_sparse_data makes at most
\* MAX_FILTER_ITERATIONS + 1 passes, every pass of the loop of
\* train_als_model.main that is not the last leaves strictly fewer rows, and
\* each loop is eventually left.
C22_FilterLoopTerminates ==
    /\ [](prep.loop.which = "filter_sparse_data"
             => prep.loop.iteration <= MAX_FILTER_ITERATIONS + 1)
    /\ [][(prep.loop.which = "train_als_model" /\ prep'.pc = "loop")
             => Len(prep'.loop.df) < Len(prep.loop.df)]_vars
    /\ <>(prep.pc = "done")

\* C22 witness: the loop of train_als_model.main was left after three
\* passes, two of which removed rows.
C22_Witness ==
    /\ prep.pc = "done"
    /\ prep.loop.which = "train_als_model"
    /\ prep.loop.iteration = 3

\* C23: in the table returned by preprocess every user has at least
\* min_user_interactions rows and every item at least min_item_interactions
\* rows.
C23_MinActivityHolds ==
    (prep.pc = "alt" /\ prep.alt.err = "none") =>
        \A i \in DOMAIN prep.alt.df :
            /\ UserCount(prep.alt.df, prep.alt.df[i].user_id)
                   >= prep.args.min_user_interactions
            /\ ExperienceCount(prep.alt.df, prep.alt.df[i].experience_id)
                   >= prep.args.min_item_interactions

\* The error of the step, from the parameters before the step.
PreStepError ==
    LET m == cf.model
        raw == m.global_mean + m.user_bias + m.item_bias
               + m.user_factors[1] * m.item_factors[1]
    IN cf.q.rating - (IF cf.q.class = "svd" /\ raw < 0 THEN 0
                      ELSE IF cf.q.class = "svd" /\ raw > 1 THEN 1 ELSE raw)

\* C24: a step is a simultaneous update: every new bias and factor is
\* computed from the error and the parameters as they were before the step;
\* the item factor uses the old user factor and the user factor the old
\* item factor.
C24_SimultaneousUpdate ==
    cf.pc = "stepped" =>
        LET m == cf.model
            e == PreStepError
            lr == m.learning_rate
            reg == m.regularization
        IN /\ cf.res.user_bias = m.user_bias + lr * (e - reg * m.user_bias)
           /\ cf.res.item_bias = m.item_bias + lr * (e - reg * m.item_bias)
           /\ cf.res.user_factors[1]
                 = m.user_factors[1] + lr * (e * m.item_factors[1] - reg * m.user_factors[1])
           /\ cf.res.item_factors[1]
                 = m.item_factors[1] + lr * (e * m.user_factors[1] - reg * m.item_factors[1])

\* C24 witness: a step of CollaborativeFilteringModel with a non-zero error
\* changed the user factor, so an item update reading the new user factor
\* would have given another item factor.
C24_Witness ==
    /\ cf.pc = "stepped" /\ cf.q.class = "model"
    /\ PreStepError # 0
    /\ cf.res.user_factors[1] # cf.model.user_factors[1]
    /\ cf.res.item_factors[1] # cf.model.item_factors[1]

\* C25: with filter_already_liked_items, recommend returns no item index of
\* user_items_row; it returns nothing when the user has interacted with
\* every item, and otherwise at most as many items as the user has not
\* interacted with, in non-increasing score order.
C25_NeverReturnsLiked ==
    (cf.pc = "als_recommended" /\ cf.q.filter_already_liked_items) =>
        LET returned == {cf.res.items[k] : k \in DOMAIN cf.res.items}
            unseen == (0..(Len(cf.model.item_factors) - 1)) \ cf.q.liked_items
        IN /\ returned \cap cf.q.liked_items = {}
           /\ unseen = {} => cf.res.items = <<>>
           /\ Len(cf.res.items) <= Cardinality(unseen)
           /\ \A j, k \in DOMAIN cf.res.scores :
                 j < k => ScoreLeq(cf.res.scores[k], cf.res.scores[j])

\* The aggregated rating of a pair: the largest rating derived from its
\* records, in tenths.
AggregatedRating(raw, pair) ==
    LET derived == {ConvertToImplicitRating(raw[i]) :
                       i \in {j \in DOMAIN raw : PairOf(raw[j]) = pair}}
    IN CHOOSE r \in derived : \A x \in derived : x <= r

\* C26: on both training paths every entry of the matrix passed to
\* ImplicitALS.fit is 1 + alpha * rating for the aggregated rating of its
\* pair and the alpha the model is constructed with (values in tenths).
C26_ConfidenceEntries ==
    prep.pc = "matrix" =>
        \A pair \in DOMAIN prep.out.matrix :
            prep.out.matrix[pair] = 10 + prep.out.alpha * AggregatedRating(prep.raw, pair)

\* The scheduled job's script is between opening its first artifact and
\* closing its last one; the same for the script of an API-triggered run.
JobWriting == job.pc \in {"dump_model", "open_enc", "dump_enc"}
ApiWriting == api.pc \in {"dump_enc", "open_model", "dump_model"}

\* C27: the model artifacts have a single writer: the scheduled retrain_job
\* and an API-triggered training are never writing als_model.pkl and
\* encoders_als.pkl at the same time.
C27_SingleWriter == ~(JobWriting /\ ApiWriting)

\* C30: when no call of the training service is in progress,
\* training_status is not a running state: it is "idle" after a successful
\* run_preprocessing and "failed" after a failed one, "completed" after a
\* successful run_training and "failed" after a failed one.
C30_StatusNotLeftRunning ==
    api.pc = "idle" =>
        /\ tsvc.training_status \notin {"preprocessing", "training"}
        /\ tsvc.returned = "run_preprocessing" =>
              tsvc.training_status = (IF tsvc.preprocess = "success" THEN "idle" ELSE "failed")
        /\ tsvc.returned = "run_training" =>
              tsvc.training_status = (IF tsvc.training = "success" THEN "completed" ELSE "failed")

\* C30 witness: run_preprocessing has failed after a training that had
\* completed.
C30_Witness ==
    /\ api.pc = "idle"
    /\ tsvc.returned = "run_preprocessing" /\ tsvc.preprocess = "error"
    /\ tsvc.training = "success"
    /\ tsvc.training_status = "failed"

\* C28: for a non-empty held-out dictionary calculate_metrics returns the
\* four averages, having scored exactly the users of the dictionary.
C28_MetricsScoreHeldOutUsers ==
    (cf.pc = "evaluated" /\ DOMAIN cf.q.test_user_items # {}) =>
        /\ cf.res.err = "none"
        /\ cf.res.scored = DOMAIN cf.q.test_user_items
        /\ \A name \in {"precision", "recall", "ndcg", "hit_rate"} :
              cf.res[name] \notin {"unset", "nan"}

\* The recommendation request and the create_interaction call of the same
\* user have both completed, the interaction having been written and the
\* user's keys deleted while the request was awaiting the database.
RacedAndCompleted ==
    /\ rd.pc = "done" /\ rd.op = "rec" /\ rd.use_cache /\ ~rd.hit /\ rd.err = "none"
    /\ rd.race = "cleared"
    /\ wr.pc = "done" /\ wr.op = "create" /\ wr.user = rd.user /\ wr.cleared

====
